---- MODULE Spec2Model ----
(***************************************************************************)
(* A model of the CAN bus simulation (can_bus_simulation.py) and of its    *)
(* attack models (can_bus_attacks.py): the virtual bus and its arbitration *)
(* loop, the SecurityManager, the controllers' send/receive pipelines, the *)
(* AttackManager and the three attack loops.                               *)
(*                                                                         *)
(* Time is a discrete clock `now` counted in ticks, TicksPerSecond ticks   *)
(* to the second.  Measured processing overheads (time.time() differences) *)
(* are not modelled; the overhead history is kept as a number of entries.  *)
(* Payloads are sequences of tokens: a plaintext byte is 0..255, an IV     *)
(* block, a ciphertext byte, the padding block and a MAC block are tokens  *)
(* of disjoint ranges above 255.                                           *)
(***************************************************************************)
EXTENDS Integers, Sequences, FiniteSets, TLC

(***************************************************************************)
(* Bounds of the model                                                     *)
(***************************************************************************)
TicksPerSecond == 2
MaxTime == 1
MaxFrames == 3
MaxCalls == 3
MaxAttempts == 3
MaxDefCalls == 2
MaxDefAttempts == 3
MaxSends == 22
MaxLearnSends == 20
MaxIdsReplays == 3
MaxBurst == 3
MaxRecvFrames == 2
MaxFloods == 22
MaxToggleSends == 2
MaxCounterCalls == 2
MaxPending == 2
MaxCount == 2

(***************************************************************************)
(* Program constants                                                       *)
(***************************************************************************)
rate_limit_threshold == 20
RateWindowMaxLen == 100
IdsMinSamples == 20
IdsMinRecent == 2
IdsMultiplier == 3
HistoryMaxLen == 1000
LATENCY_CRITICAL == 10
LATENCY_SAFETY == 20
ReplayBurst == 3

RateWindowTicks == TicksPerSecond
MsPerTick == 1000 \div TicksPerSecond

CRITICAL_IDS == {160, 161}
SAFETY_IDS == {192, 193}

Measures == {"encryption", "authentication", "rate_limiting", "ids"}

\* CANSimulation.__init__: the controllers, in the order they register.
receivers == <<"EngineECU", "BrakeECU", "TransmissionECU", "BodyECU">>
Controllers == {receivers[i] : i \in 1..Len(receivers)}

subscriptions ==
    [c \in Controllers |->
        CASE c = "EngineECU" -> <<160, 768>>
          [] c = "BrakeECU" -> <<256>>
          [] c = "TransmissionECU" -> <<256, 160>>
          [] c = "BodyECU" -> <<256, 512>>]

\* The arbitration IDs each ECU application sends through its controller.
EcuIds ==
    [c \in Controllers |->
        CASE c = "EngineECU" -> {256, 257}
          [] c = "BrakeECU" -> {160, 161}
          [] c = "TransmissionECU" -> {512}
          [] c = "BodyECU" -> {768, 769}]

AllIds == {0, 160, 161, 256, 257, 512, 768, 769}

(***************************************************************************)
(* Sequences                                                               *)
(***************************************************************************)
Range(s) == {s[i] : i \in 1..Len(s)}

Front(s) == SubSeq(s, 1, Len(s) - 1)

Last(s) == s[Len(s)]

RECURSIVE SumSeq(_)
SumSeq(s) == IF s = <<>> THEN 0 ELSE s[1] + SumSeq(Tail(s))

\* collections.deque(maxlen=n).append: the oldest entry falls out when full.
DequeAppend(s, x, n) ==
    IF Len(s) >= n THEN Append(Tail(s), x) ELSE Append(s, x)

(***************************************************************************)
(* Payload transforms                                                      *)
(***************************************************************************)
IVs == {256, 257}
CtBase == 512
PadBlock == 1023
MacBase == 1024

IsIV(x) == x \in IVs
IsCt(x) == x >= CtBase /\ x < PadBlock
IsMac(x) == x >= MacBase

\* SecurityManager.encrypt: iv + AES-CBC(pad(data)); pad always adds a block end.
EncryptBytes(data, iv) ==
    <<iv>> \o [i \in 1..Len(data) |-> CtBase + data[i]] \o <<PadBlock>>

\* SecurityManager.decrypt: valid iff an IV, ciphertext and valid padding.
DecryptValid(data) ==
    /\ Len(data) >= 2
    /\ IsIV(data[1])
    /\ data[Len(data)] = PadBlock
    /\ \A i \in 2..(Len(data) - 1) : IsCt(data[i])

DecryptBytes(data) ==
    [i \in 1..(Len(data) - 2) |-> data[i + 1] - CtBase]

\* hmac.new(HMAC_KEY, data, sha256).digest(), as one token.
RECURSIVE MacSum(_, _)
MacSum(data, k) ==
    IF data = <<>> THEN 0
    ELSE (k * (data[1] + 1) + MacSum(Tail(data), k + 1)) % 997

MacOf(data) == MacBase + MacSum(data, 1)

\* SecurityManager.add_hmac
AddHmac(data) == Append(data, MacOf(data))

\* SecurityManager.verify_hmac: message = data[:-32], mac = data[-32:].
HmacMessage(data) == IF data = <<>> THEN <<>> ELSE Front(data)

HmacValid(data) ==
    /\ data # <<>>
    /\ Last(data) = MacOf(Front(data))

(***************************************************************************)
(* Frames and their order (dataclass(order=True): arbitration_id, data)    *)
(***************************************************************************)
RECURSIVE BytesLess(_, _)
BytesLess(a, b) ==
    IF b = <<>> THEN FALSE
    ELSE IF a = <<>> THEN TRUE
    ELSE IF a[1] # b[1] THEN a[1] < b[1]
    ELSE BytesLess(Tail(a), Tail(b))

\* a frame order that compares the arbitration ID alone
FrameLessById(a, b) == a.arbitration_id < b.arbitration_id

FrameLess(a, b) ==
    \/ a.arbitration_id < b.arbitration_id
    \/ /\ a.arbitration_id = b.arbitration_id
       /\ BytesLess(a.data, b.data)

NoFrame == [arbitration_id |-> -1, data |-> <<>>, send_time |-> 0, source |-> "",
            encrypted |-> FALSE, authenticated |-> FALSE, uid |-> 0]

CANFrame(id, data, source, uid) ==
    [arbitration_id |-> id, data |-> data, send_time |-> 0, source |-> source,
     encrypted |-> FALSE, authenticated |-> FALSE, uid |-> uid]

(***************************************************************************)
(* heapq on a list (1-based here; heapq's position p is index p + 1)       *)
(***************************************************************************)
RECURSIVE SiftDown(_, _, _, _)
SiftDown(heap, startpos, pos, newitem) ==
    IF pos > startpos
    THEN LET parentpos == (pos - 1) \div 2
             parent == heap[parentpos + 1]
         IN IF FrameLess(newitem, parent)
            THEN SiftDown([heap EXCEPT ![pos + 1] = parent], startpos, parentpos, newitem)
            ELSE [heap EXCEPT ![pos + 1] = newitem]
    ELSE [heap EXCEPT ![pos + 1] = newitem]

RECURSIVE SiftUpLoop(_, _, _)
SiftUpLoop(heap, pos, newitem) ==
    LET endpos == Len(heap)
        childpos == 2 * pos + 1
    IN IF childpos < endpos
       THEN LET rightpos == childpos + 1
                c == IF rightpos < endpos
                        /\ ~FrameLess(heap[childpos + 1], heap[rightpos + 1])
                     THEN rightpos ELSE childpos
            IN SiftUpLoop([heap EXCEPT ![pos + 1] = heap[c + 1]], c, newitem)
       ELSE SiftDown(heap, 0, pos, newitem)

HeapPush(heap, item) ==
    SiftDown(Append(heap, item), 0, Len(heap), item)

\* heappop: <<returned item, heap left>>
HeapPop(heap) ==
    LET lastelt == heap[Len(heap)]
        rest == Front(heap)
    IN IF rest # <<>>
       THEN <<rest[1], SiftUpLoop(rest, 0, lastelt)>>
       ELSE <<lastelt, rest>>

(***************************************************************************)
(* SecurityManager: rate limiting and intrusion detection                  *)
(***************************************************************************)
\* check_rate_limit: the window after the append of the current timestamp
RateWindowAfter(win, t) == DequeAppend(win, t, RateWindowMaxLen)

\* a window whose entries never age
RecentTimesAll(win, t) == win

\* the entries of a window within the trailing second
RecentTimes(win, t) == SelectSeq(win, LAMBDA x : t - x < RateWindowTicks)

RateRecent(win, t) == Len(RecentTimes(RateWindowAfter(win, t), t))

\* a limit that refuses the check that reaches the threshold
RateAllowedBelow(win, t) == ~(RateRecent(win, t) >= rate_limit_threshold)

RateAllowed(win, t) == ~(RateRecent(win, t) > rate_limit_threshold)

\* sum(intervals) of consecutive differences, and len(intervals)
IntervalSum(ts) == SumSeq([i \in 1..(Len(ts) - 1) |-> ts[i + 1] - ts[i]])

IntervalCount(ts) == IF ts = <<>> THEN 0 ELSE Len(ts) - 1

NoBaseline == [count |-> 0, sum |-> 0, n |-> 1]

\* check_anomaly, learning phase: the baseline after the sample is appended
BaselineAfter(base, samples) ==
    IF Len(samples) >= IdsMinSamples
    THEN [count |-> Len(samples), sum |-> IntervalSum(samples),
          n |-> IntervalCount(samples)]
    ELSE base

\* a detector that gives a verdict on two recent timestamps
AnomalyAllowedTwoRecent(base, win, t) ==
    IF base.count = 0 \/ base.sum = 0 THEN TRUE
    ELSE LET recent == RecentTimes(win, t)
         IN IF Len(recent) >= IdsMinRecent
            THEN ~(IntervalSum(recent) * IdsMultiplier * base.n
                      < base.sum * IntervalCount(recent))
            ELSE TRUE

\* check_anomaly, detection phase: FALSE iff an anomaly is reported.
\* avg_recent < baseline / 3, with the averages as exact fractions.
AnomalyAllowed(base, win, t) ==
    IF base.count = 0 \/ base.sum = 0 THEN TRUE
    ELSE LET recent == RecentTimes(win, t)
         IN IF Len(recent) > IdsMinRecent
            THEN ~(IntervalSum(recent) * IdsMultiplier * base.n
                      < base.sum * IntervalCount(recent))
            ELSE TRUE

(***************************************************************************)
(* State                                                                   *)
(***************************************************************************)
VARIABLES
    \* SecurityManager
    measures, sec_stats, rate_windows, message_baseline, learning_phase,
    learning_samples,
    \* VirtualCANBus and its arbitration loop (bus_frame: the frame being broadcast)
    tx_queue, total_messages, bus_compromised, bus_frame, bus_idx,
    \* CANController, per controller
    health_status, attack_events, latency_history, log, security_overhead_history,
    \* AttackManager, the attacks' running flags and their execute threads
    active_attacks, compromised_nodes, attack_log, attack_stats, running, tasks,
    \* the clock
    now,
    \* history: frames created, frames accepted by bus.send, frames dequeued,
    \* frames received per controller, the last start_attack/stop_attack call and
    \* the value the last toggle_security returned
    next_uid, accepted, dequeued, recv_log, last_call, toggle_result,
    \* the threads inside a SecurityManager counter's "+= 1" (the value each has
    \* read and not yet written back), and the operations counted so far
    pending, op_count,
    \* the rate windows of the companion run: the same controller sends at the
    \* same times with no attack thread calling check_rate_limit
    legit_windows,
    \* the threads inside check_rate_limit's count over a rate window: the ID,
    \* the call's time, and whether the deque was appended to since the
    \* iteration began
    scanning

secVars == <<measures, sec_stats, rate_windows, message_baseline, learning_phase,
             learning_samples>>
busVars == <<tx_queue, total_messages, bus_compromised, bus_frame, bus_idx>>
ctrlVars == <<health_status, attack_events, latency_history, log,
              security_overhead_history>>
mgrVars == <<active_attacks, compromised_nodes, attack_log, attack_stats, running, tasks>>
histVars == <<next_uid, accepted, dequeued, recv_log, last_call, toggle_result, pending, op_count, legit_windows, scanning>>
vars == <<secVars, busVars, ctrlVars, mgrVars, now, histVars>>

AttackNames == {"bus_flooding", "spoofing", "replay"}

\* the attacks' target_node attributes
target_node ==
    [n \in AttackNames |->
        CASE n = "bus_flooding" -> "BUS_FLOODER"
          [] n = "spoofing" -> "BodyECU"
          [] n = "replay" -> "EngineECU"]

\* the attacks' stop(): the markers each discards from compromised_nodes
StopMarkers ==
    [n \in AttackNames |->
        CASE n = "bus_flooding" -> {}
          [] n = "spoofing" -> {"BrakeECU", "BodyECU"}
          [] n = "replay" -> {"EngineECU"}]

\* AttackManager.stats[name].target_ids
target_ids ==
    [n \in AttackNames |->
        CASE n = "bus_flooding" -> <<>>
          [] n = "spoofing" -> <<160, 768, 769>>
          [] n = "replay" -> <<256, 512>>]

FloodId == 0
FloodData == <<255, 255, 255, 255, 255, 255, 255, 255>>
\* SpoofingAttack.targets and ReplayAttack.captured, in dict order
SpoofTargets == <<[id |-> 160, data |-> <<0>>], [id |-> 768, data |-> <<0>>],
                  [id |-> 769, data |-> <<0>>]>>
ReplayCaptured == <<[id |-> 256, data |-> <<11, 184>>], [id |-> 512, data |-> <<3>>]>>

NoTask == [name |-> "none", pc |-> "none", i |-> 1, j |-> 1]
TaskIds == 1..MaxCalls

\* SecurityManager.stats keys, and the threads that call the SecurityManager:
\* two ECU threads and the replay attack's thread
CounterKeys == {"messages_encrypted", "messages_authenticated",
                "rate_limit_violations", "anomalies_detected"}
Threads == {"EngineECU", "TransmissionECU", "ATTACKER"}
NoPending == [key |-> "none", val |-> 0]

\* a thread that is not iterating a rate window
NoScan == [st |-> "idle", id |-> 0, t |-> 0, mutated |-> FALSE]

ZeroStats == [attempts |-> 0, successful |-> 0, blocked |-> 0, detected |-> 0]

Init ==
    /\ measures = [m \in Measures |-> FALSE]
    /\ sec_stats = [messages_encrypted |-> 0, messages_authenticated |-> 0,
                    rate_limit_violations |-> 0, anomalies_detected |-> 0]
    /\ rate_windows = [id \in AllIds |-> <<>>]
    /\ message_baseline = [id \in AllIds |-> NoBaseline]
    /\ learning_phase = TRUE
    /\ learning_samples = [id \in AllIds |-> <<>>]
    /\ tx_queue = <<>>
    /\ total_messages = 0
    /\ bus_compromised = FALSE
    /\ bus_frame = NoFrame
    /\ bus_idx = 1
    /\ health_status = [c \in Controllers |-> "healthy"]
    /\ attack_events = [c \in Controllers |-> <<>>]
    /\ latency_history = [c \in Controllers |-> <<>>]
    /\ log = [c \in Controllers |-> <<>>]
    /\ security_overhead_history = [c \in Controllers |-> 0]
    /\ active_attacks = {}
    /\ compromised_nodes = {}
    /\ attack_log = <<>>
    /\ attack_stats = [n \in AttackNames |-> ZeroStats]
    /\ running = [n \in AttackNames |-> FALSE]
    /\ tasks = [t \in TaskIds |-> NoTask]
    /\ now = 0
    /\ next_uid = 1
    /\ accepted = {}
    /\ dequeued = <<>>
    /\ recv_log = [c \in Controllers |-> <<>>]
    /\ last_call = [op |-> "none", name |-> "", result |-> FALSE, seq |-> 0]
    /\ toggle_result = TRUE
    /\ pending = [th \in Threads |-> NoPending]
    /\ op_count = [k \in CounterKeys |-> 0]
    /\ legit_windows = [id \in AllIds |-> <<>>]
    /\ scanning = [th \in Threads |-> NoScan]

(***************************************************************************)
(* SecurityManager operations on the state                                 *)
(***************************************************************************)
\* a toggle that switches IDS along with the measure named
ToggleSecurityWithIds(m, e) ==
    /\ IF m \in Measures
       THEN /\ measures' = [measures EXCEPT ![m] = e, !["ids"] = e]
            /\ toggle_result' = TRUE
       ELSE /\ UNCHANGED measures
            /\ toggle_result' = FALSE
    /\ UNCHANGED <<sec_stats, rate_windows, message_baseline, learning_phase,
                   learning_samples>>
    /\ UNCHANGED <<busVars, ctrlVars, mgrVars, now>>
    /\ UNCHANGED <<next_uid, accepted, dequeued, recv_log, last_call, pending, op_count, legit_windows, scanning>>

\* toggle_measure / CANSimulation.toggle_security
ToggleSecurity(m, e) ==
    /\ IF m \in Measures
       THEN /\ measures' = [measures EXCEPT ![m] = e]
            /\ toggle_result' = TRUE
       ELSE /\ UNCHANGED measures
            /\ toggle_result' = FALSE
    /\ UNCHANGED <<sec_stats, rate_windows, message_baseline, learning_phase,
                   learning_samples>>
    /\ UNCHANGED <<busVars, ctrlVars, mgrVars, now>>
    /\ UNCHANGED <<next_uid, accepted, dequeued, recv_log, last_call, pending, op_count, legit_windows, scanning>>

FinishLearning ==
    /\ learning_phase
    /\ learning_phase' = FALSE
    /\ UNCHANGED <<measures, sec_stats, rate_windows, message_baseline, learning_samples>>
    /\ UNCHANGED <<busVars, ctrlVars, mgrVars, now, histVars>>

Tick ==
    /\ now' = now + 1
    /\ UNCHANGED <<secVars, busVars, ctrlVars, mgrVars, histVars>>

\* a detector that compares against the baseline while still learning
AnomalyVerdictNoLearning(id, wins) ==
    AnomalyAllowed(message_baseline[id], wins[id], now)

\* check_anomaly's return value: TRUE in the learning phase, else the comparison
\* of the window with the baseline
AnomalyVerdict(id, wins) ==
    learning_phase \/ AnomalyAllowed(message_baseline[id], wins[id], now)

\* checks whose IDS keeps collecting samples and building baselines after the
\* learning phase has ended
SecChecksAlwaysLearning(id) ==
    LET useRate == measures["rate_limiting"]
        rateOk == ~useRate \/ RateAllowed(rate_windows[id], now)
        wins == IF useRate
                THEN [rate_windows EXCEPT ![id] = RateWindowAfter(@, now)]
                ELSE rate_windows
        useIds == measures["ids"] /\ rateOk
        learn == useIds
        samples == IF learn
                   THEN [learning_samples EXCEPT ![id] = Append(@, now)]
                   ELSE learning_samples
        base == IF learn
                THEN [message_baseline EXCEPT ![id] = BaselineAfter(@, samples[id])]
                ELSE message_baseline
        idsOk == ~useIds \/ AnomalyVerdict(id, wins)
    IN  [rateOk |-> rateOk, idsOk |-> idsOk, wins |-> wins, samples |-> samples,
         base |-> base,
         violations |-> IF rateOk THEN 0 ELSE 1,
         anomalies |-> IF idsOk THEN 0 ELSE 1]

\* The checks a sender runs for one frame of arbitration ID id: check_rate_limit
\* when rate limiting is on, then check_anomaly when IDS is on and the frame was
\* not blocked.  The result holds the verdicts and the SecurityManager state after.
SecChecks(id) ==
    LET useRate == measures["rate_limiting"]
        rateOk == ~useRate \/ RateAllowed(rate_windows[id], now)
        wins == IF useRate
                THEN [rate_windows EXCEPT ![id] = RateWindowAfter(@, now)]
                ELSE rate_windows
        useIds == measures["ids"] /\ rateOk
        learn == useIds /\ learning_phase
        samples == IF learn
                   THEN [learning_samples EXCEPT ![id] = Append(@, now)]
                   ELSE learning_samples
        base == IF learn
                THEN [message_baseline EXCEPT ![id] = BaselineAfter(@, samples[id])]
                ELSE message_baseline
        idsOk == ~useIds \/ AnomalyVerdict(id, wins)
    IN  [rateOk |-> rateOk, idsOk |-> idsOk, wins |-> wins, samples |-> samples,
         base |-> base,
         violations |-> IF rateOk THEN 0 ELSE 1,
         anomalies |-> IF idsOk THEN 0 ELSE 1]

(***************************************************************************)
(* SecurityManager counters under concurrent callers.  No lock guards      *)
(* self.stats: each "self.stats[key] += 1" is a read of the counter        *)
(* followed by a write of the value read plus one, and another thread may  *)
(* run between the two.                                                    *)
(***************************************************************************)
\* the arbitration ID of the frames a thread passes to check_rate_limit
ThreadRateId ==
    [th \in Threads |-> IF th = "EngineECU" THEN 256 ELSE 512]

\* the read half of "self.stats[key] += 1"; the operation is counted
CounterRead(th, key) ==
    /\ pending' = [pending EXCEPT ![th] = [key |-> key, val |-> sec_stats[key]]]
    /\ op_count' = [op_count EXCEPT ![key] = @ + 1]

\* the write half
CounterWrite(th) ==
    /\ pending[th] # NoPending
    /\ sec_stats' = [sec_stats EXCEPT ![pending[th].key] = pending[th].val + 1]
    /\ pending' = [pending EXCEPT ![th] = NoPending]
    /\ UNCHANGED <<measures, rate_windows, message_baseline, learning_phase,
                   learning_samples, op_count>>
    /\ UNCHANGED <<busVars, ctrlVars, mgrVars, now>>
    /\ UNCHANGED <<next_uid, accepted, dequeued, recv_log, last_call, toggle_result, legit_windows, scanning>>

\* SecurityManager.encrypt called from Controller.send in an ECU thread, up to
\* the read of messages_encrypted
EncryptCall(th) ==
    /\ th # "ATTACKER"
    /\ measures["encryption"]
    /\ pending[th] = NoPending
    /\ CounterRead(th, "messages_encrypted")
    /\ UNCHANGED <<secVars, busVars, ctrlVars, mgrVars, now>>
    /\ UNCHANGED <<next_uid, accepted, dequeued, recv_log, last_call, toggle_result, legit_windows, scanning>>

\* SecurityManager.add_hmac, up to the read of messages_authenticated
AddHmacCall(th) ==
    /\ th # "ATTACKER"
    /\ measures["authentication"]
    /\ pending[th] = NoPending
    /\ CounterRead(th, "messages_authenticated")
    /\ UNCHANGED <<secVars, busVars, ctrlVars, mgrVars, now>>
    /\ UNCHANGED <<next_uid, accepted, dequeued, recv_log, last_call, toggle_result, legit_windows, scanning>>

\* SecurityManager.check_rate_limit called from an ECU thread or an attack
\* thread: the append and the count, and on failure the read of
\* rate_limit_violations
CheckRateLimitCall(th) ==
    LET id == ThreadRateId[th]
    IN  /\ measures["rate_limiting"]
        /\ pending[th] = NoPending
        /\ rate_windows' = [rate_windows EXCEPT ![id] = RateWindowAfter(@, now)]
        /\ IF RateAllowed(rate_windows[id], now)
           THEN UNCHANGED <<pending, op_count>>
           ELSE CounterRead(th, "rate_limit_violations")
        /\ UNCHANGED <<measures, sec_stats, message_baseline, learning_phase,
                       learning_samples>>
        /\ UNCHANGED <<busVars, ctrlVars, mgrVars, now>>
        /\ UNCHANGED <<next_uid, accepted, dequeued, recv_log, last_call, toggle_result, legit_windows, scanning>>

(***************************************************************************)
(* SecurityManager.check_rate_limit under concurrent callers.  No lock      *)
(* guards self.rate_windows: the call appends its timestamp and then         *)
(* iterates the deque in a generator expression, and another thread may      *)
(* append to the same deque while the iteration is under way.  A deque       *)
(* iterator raises RuntimeError on its next step once the deque has been     *)
(* mutated; nothing in check_rate_limit, Controller.send, the ECU run loops  *)
(* or the attacks' execute catches it.                                       *)
(***************************************************************************)
\* check_rate_limit(id) in thread th up to the start of the count: the append,
\* which every iteration of the same deque in progress observes
ScanBegin(th) ==
    LET id == ThreadRateId[th]
    IN  /\ measures["rate_limiting"]
        /\ scanning[th].st = "idle"
        /\ rate_windows' = [rate_windows EXCEPT ![id] = RateWindowAfter(@, now)]
        /\ scanning' = [o \in Threads |->
              IF o = th THEN [st |-> "scan", id |-> id, t |-> now, mutated |-> FALSE]
              ELSE IF scanning[o].st = "scan" /\ scanning[o].id = id
              THEN [scanning[o] EXCEPT !.mutated = TRUE]
              ELSE scanning[o]]
        /\ UNCHANGED <<measures, sec_stats, message_baseline, learning_phase,
                       learning_samples>>
        /\ UNCHANGED <<busVars, ctrlVars, mgrVars, now>>
        /\ UNCHANGED <<next_uid, accepted, dequeued, recv_log, last_call, toggle_result,
                       pending, op_count, legit_windows>>

\* the rest of the call: the iteration raises if the deque was mutated, and
\* otherwise the count is compared with the threshold
ScanEnd(th) ==
    LET sc == scanning[th]
        recent == Len(RecentTimes(rate_windows[sc.id], sc.t))
    IN  /\ sc.st = "scan"
        /\ IF sc.mutated
           THEN /\ scanning' = [scanning EXCEPT ![th].st = "failed"]
                /\ UNCHANGED sec_stats
           ELSE /\ scanning' = [scanning EXCEPT ![th] = NoScan]
                /\ sec_stats' = [sec_stats EXCEPT !.rate_limit_violations =
                                    @ + (IF recent > rate_limit_threshold THEN 1 ELSE 0)]
        /\ UNCHANGED <<measures, rate_windows, message_baseline, learning_phase,
                       learning_samples>>
        /\ UNCHANGED <<busVars, ctrlVars, mgrVars, now>>
        /\ UNCHANGED <<next_uid, accepted, dequeued, recv_log, last_call, toggle_result,
                       pending, op_count, legit_windows>>

(***************************************************************************)
(* VirtualCANBus                                                           *)
(***************************************************************************)
\* a send that loses the frame
BusSendLost(queue, frame) == queue

\* VirtualCANBus.send: heappush under the lock
BusSend(queue, frame) == HeapPush(queue, frame)

\* process_bus, one dequeue: heappop under the lock, total_messages += 1
ProcessBusPop ==
    /\ bus_frame = NoFrame
    /\ tx_queue # <<>>
    /\ LET r == HeapPop(tx_queue)
       IN /\ bus_frame' = r[1]
          /\ tx_queue' = r[2]
          /\ dequeued' = Append(dequeued, r[1].uid)
    /\ total_messages' = total_messages + 1
    /\ bus_idx' = 1
    /\ UNCHANGED <<bus_compromised, secVars, ctrlVars, mgrVars, now>>
    /\ UNCHANGED <<next_uid, accepted, recv_log, last_call, toggle_result, pending, op_count, legit_windows, scanning>>

(***************************************************************************)
(* CANController                                                           *)
(***************************************************************************)
Event(type, id) == [type |-> type, arb_id |-> id]

\* a send that goes on after a failed rate-limit check
SendBlockedNever(chk) == FALSE

\* CANController.send: "if not allowed: ... return  # Block message"
SendBlocked(chk) == ~chk.rateOk

\* CANController.send of a new CANFrame(id, data); iv is the IV encrypt draws.
ControllerSend(c, id, data, iv) ==
    LET enc == measures["encryption"]
        auth == measures["authentication"]
        d1 == IF enc THEN EncryptBytes(data, iv) ELSE data
        d2 == IF auth THEN AddHmac(d1) ELSE d1
        frame == [CANFrame(id, d2, c, next_uid) EXCEPT
                     !.send_time = now, !.encrypted = enc, !.authenticated = auth]
        chk == SecChecks(id)
        ev1 == IF chk.rateOk THEN <<>> ELSE <<Event("rate_limit_violation", id)>>
        ev2 == IF chk.idsOk THEN <<>> ELSE <<Event("anomaly_detected", id)>>
    IN  /\ sec_stats' = [sec_stats EXCEPT
              !.messages_encrypted = @ + (IF enc THEN 1 ELSE 0),
              !.messages_authenticated = @ + (IF auth THEN 1 ELSE 0),
              !.rate_limit_violations = @ + chk.violations,
              !.anomalies_detected = @ + chk.anomalies]
        /\ rate_windows' = chk.wins
        /\ learning_samples' = chk.samples
        /\ message_baseline' = chk.base
        /\ attack_events' = [attack_events EXCEPT ![c] = @ \o ev1 \o ev2]
        /\ IF ~SendBlocked(chk)
           THEN /\ security_overhead_history' =
                      [security_overhead_history EXCEPT
                          ![c] = IF @ >= HistoryMaxLen THEN @ ELSE @ + 1]
                /\ tx_queue' = BusSend(tx_queue, frame)
                /\ accepted' = accepted \cup {frame.uid}
           ELSE UNCHANGED <<security_overhead_history, tx_queue, accepted>>
        /\ next_uid' = next_uid + 1
        /\ legit_windows' = IF measures["rate_limiting"]
                            THEN [legit_windows EXCEPT ![id] = RateWindowAfter(@, now)]
                            ELSE legit_windows
        /\ UNCHANGED <<measures, learning_phase>>
        /\ UNCHANGED <<total_messages, bus_compromised, bus_frame, bus_idx>>
        /\ UNCHANGED <<health_status, latency_history, log>>
        /\ UNCHANGED <<mgrVars, now, dequeued, recv_log, last_call, toggle_result, pending, op_count,
                       scanning>>

\* a receive that decrypts before it verifies the MAC
ReceiveStageDecryptFirst(frame) ==
    LET checkAuth == measures["authentication"] /\ frame.authenticated
        checkEnc == measures["encryption"] /\ frame.encrypted
    IN  IF checkEnc /\ ~DecryptValid(frame.data) THEN "decrypt"
        ELSE IF checkAuth /\ ~HmacValid(frame.data) THEN "auth"
        ELSE "ok"

\* CANController.receive: what happens to frame at controller c.
\* stage: "auth" / "decrypt" when verification fails there, else "ok".
ReceiveStage(frame) ==
    LET checkAuth == measures["authentication"] /\ frame.authenticated
        d1 == IF checkAuth THEN HmacMessage(frame.data) ELSE frame.data
        checkEnc == measures["encryption"] /\ frame.encrypted
    IN  IF checkAuth /\ ~HmacValid(frame.data) THEN "auth"
        ELSE IF checkEnc /\ ~DecryptValid(d1) THEN "decrypt"
        ELSE "ok"

InSubscriptions(c, id) == id \in Range(subscriptions[c])

LatencyMs(frame) == (now - frame.send_time) * MsPerTick

\* a latency check that lets a late critical frame pass
LatencyBreachSafetyOnly(frame) ==
    frame.arbitration_id \in SAFETY_IDS /\ LatencyMs(frame) > LATENCY_SAFETY

LatencyBreach(frame) ==
    \/ frame.arbitration_id \in CRITICAL_IDS /\ LatencyMs(frame) > LATENCY_CRITICAL
    \/ /\ ~(frame.arbitration_id \in CRITICAL_IDS /\ LatencyMs(frame) > LATENCY_CRITICAL)
       /\ frame.arbitration_id \in SAFETY_IDS
       /\ LatencyMs(frame) > LATENCY_SAFETY

Receive(c, frame) ==
    LET stage == ReceiveStage(frame)
        id == frame.arbitration_id
    IN  IF stage = "auth"
        THEN /\ attack_events' = [attack_events EXCEPT
                    ![c] = Append(@, Event("authentication_failed", id))]
             /\ health_status' = [health_status EXCEPT ![c] = "warning"]
             /\ UNCHANGED <<latency_history, log>>
        ELSE IF stage = "decrypt"
        THEN /\ attack_events' = [attack_events EXCEPT
                    ![c] = Append(@, Event("decryption_failed", id))]
             /\ health_status' = [health_status EXCEPT ![c] = "warning"]
             /\ UNCHANGED <<latency_history, log>>
        ELSE IF InSubscriptions(c, id)
        THEN /\ latency_history' = [latency_history EXCEPT
                    ![c] = DequeAppend(@, LatencyMs(frame), HistoryMaxLen)]
             /\ health_status' = [health_status EXCEPT
                    ![c] = IF LatencyBreach(frame) THEN "warning" ELSE @]
             /\ log' = [log EXCEPT
                    ![c] = Append(@, [arb_id |-> id, latency |-> LatencyMs(frame),
                                      source |-> frame.source])]
             /\ UNCHANGED attack_events
        ELSE UNCHANGED <<attack_events, health_status, latency_history, log>>

\* process_bus, the broadcast loop: node.receive(frame) for the next receiver
ProcessBusDeliver ==
    /\ bus_frame # NoFrame
    /\ LET c == receivers[bus_idx]
       IN /\ Receive(c, bus_frame)
          /\ recv_log' = [recv_log EXCEPT ![c] = Append(@, bus_frame.uid)]
    /\ IF bus_idx < Len(receivers)
       THEN bus_idx' = bus_idx + 1 /\ bus_frame' = bus_frame
       ELSE bus_idx' = 1 /\ bus_frame' = NoFrame
    /\ UNCHANGED security_overhead_history
    /\ UNCHANGED <<tx_queue, total_messages, bus_compromised>>
    /\ UNCHANGED <<secVars, mgrVars, now>>
    /\ UNCHANGED <<next_uid, accepted, dequeued, last_call, toggle_result, pending, op_count, legit_windows, scanning>>

(***************************************************************************)
(* AttackManager                                                           *)
(***************************************************************************)
FreeTasks == {t \in TaskIds : tasks[t].name = "none"}

LeastFree == CHOOSE t \in FreeTasks : \A u \in FreeTasks : t <= u

Call(op, name, result) ==
    [op |-> op, name |-> name, result |-> result, seq |-> 1 - last_call.seq]

\* a start that does not look at the active set
StartAcceptedRegistered(name) == name \in AttackNames

\* start_attack's condition: a registered attack that is not active
StartAccepted(name) == name \in AttackNames /\ name \notin active_attacks

\* a start that clears the statistics of the attack it starts
StartAttackResets(name) ==
    /\ IF StartAccepted(name)
       THEN /\ FreeTasks # {}
            /\ active_attacks' = active_attacks \cup {name}
            /\ compromised_nodes' = compromised_nodes \cup {target_node[name]}
            /\ tasks' = [tasks EXCEPT
                  ![LeastFree] = [name |-> name, pc |-> "begin", i |-> 1, j |-> 1]]
            /\ attack_log' = Append(attack_log,
                  [attack |-> name, action |-> "started", targets |-> target_ids[name]])
            /\ attack_stats' = [attack_stats EXCEPT ![name] = ZeroStats]
            /\ last_call' = Call("start", name, TRUE)
       ELSE /\ UNCHANGED <<active_attacks, compromised_nodes, tasks, attack_log,
                           attack_stats>>
            /\ last_call' = Call("start", name, FALSE)
    /\ UNCHANGED running
    /\ UNCHANGED <<secVars, busVars, ctrlVars, now>>
    /\ UNCHANGED <<next_uid, accepted, dequeued, recv_log, toggle_result, pending, op_count, legit_windows, scanning>>

StartAttack(name) ==
    /\ IF StartAccepted(name)
       THEN /\ FreeTasks # {}
            /\ active_attacks' = active_attacks \cup {name}
            /\ compromised_nodes' = compromised_nodes \cup {target_node[name]}
            /\ tasks' = [tasks EXCEPT
                  ![LeastFree] = [name |-> name, pc |-> "begin", i |-> 1, j |-> 1]]
            /\ attack_log' = Append(attack_log,
                  [attack |-> name, action |-> "started", targets |-> target_ids[name]])
            /\ last_call' = Call("start", name, TRUE)
       ELSE /\ UNCHANGED <<active_attacks, compromised_nodes, tasks, attack_log>>
            /\ last_call' = Call("start", name, FALSE)
    /\ UNCHANGED <<attack_stats, running>>
    /\ UNCHANGED <<secVars, busVars, ctrlVars, now>>
    /\ UNCHANGED <<next_uid, accepted, dequeued, recv_log, toggle_result, pending, op_count, legit_windows, scanning>>

\* a stop that does not look at the active set
StopAcceptedRegistered(name) == name \in AttackNames

\* stop_attack's condition
StopAccepted(name) == name \in active_attacks

\* stop_attack: attack.stop(), then the discard of target_node
StopAttack(name) ==
    /\ IF StopAccepted(name)
       THEN /\ active_attacks' = active_attacks \ {name}
            /\ running' = [running EXCEPT ![name] = FALSE]
            /\ bus_compromised' = IF name = "bus_flooding" THEN FALSE
                                  ELSE bus_compromised
            /\ compromised_nodes' =
                  (compromised_nodes \ StopMarkers[name]) \ {target_node[name]}
            /\ attack_log' = Append(attack_log,
                  [attack |-> name, action |-> "stopped", targets |-> <<>>])
            /\ last_call' = Call("stop", name, TRUE)
       ELSE /\ UNCHANGED <<active_attacks, running, bus_compromised,
                           compromised_nodes, attack_log>>
            /\ last_call' = Call("stop", name, FALSE)
    /\ UNCHANGED <<attack_stats, tasks>>
    /\ UNCHANGED <<tx_queue, total_messages, bus_frame, bus_idx>>
    /\ UNCHANGED <<secVars, ctrlVars, now>>
    /\ UNCHANGED <<next_uid, accepted, dequeued, recv_log, toggle_result, pending, op_count, legit_windows, scanning>>

(***************************************************************************)
(* The attacks' execute threads                                            *)
(***************************************************************************)
\* execute(), up to the loop: self.running = True (flooding: bus.compromised = True)
TaskBegin(t) ==
    /\ tasks[t].pc = "begin"
    /\ running' = [running EXCEPT ![tasks[t].name] = TRUE]
    /\ bus_compromised' = IF tasks[t].name = "bus_flooding" THEN TRUE
                          ELSE bus_compromised
    /\ tasks' = [tasks EXCEPT ![t].pc = "loop"]
    /\ UNCHANGED <<active_attacks, compromised_nodes, attack_log, attack_stats>>
    /\ UNCHANGED <<tx_queue, total_messages, bus_frame, bus_idx>>
    /\ UNCHANGED <<secVars, ctrlVars, now, histVars>>

\* a loop that looks at its running flag alone
LoopConditionRunningOnly(name) == running[name]

\* while self.running and name in self.manager.active_attacks
LoopCondition(name) == running[name] /\ name \in active_attacks

TaskLoop(t) ==
    /\ tasks[t].pc = "loop"
    /\ tasks' = [tasks EXCEPT
          ![t] = IF LoopCondition(tasks[t].name)
                 THEN [@ EXCEPT !.pc = "body", !.i = 1, !.j = 1]
                 ELSE NoTask]
    /\ UNCHANGED <<active_attacks, compromised_nodes, attack_log, attack_stats, running>>
    /\ UNCHANGED <<secVars, busVars, ctrlVars, now, histVars>>

\* What one attempt does: counts added to the attack's statistics, whether the
\* frame is sent, and the SecurityManager state after the checks it ran.
NoChecks ==
    [rateOk |-> TRUE, idsOk |-> TRUE, wins |-> rate_windows,
     samples |-> learning_samples, base |-> message_baseline,
     violations |-> 0, anomalies |-> 0]

\* a flooding attempt that authentication stops
FloodOutcomeAuthBlocks ==
    LET chk == SecChecks(FloodId)
        stopped == ~chk.rateOk \/ measures["authentication"]
    IN  [chk |-> chk,
         blocked |-> IF stopped THEN 1 ELSE 0,
         detected |-> (IF stopped THEN 1 ELSE 0) + (IF chk.idsOk THEN 0 ELSE 1),
         send |-> ~stopped]

\* a flooding attempt that an anomaly stops
FloodOutcomeIdsBlocks ==
    LET chk == SecChecks(FloodId)
    IN  [chk |-> chk,
         blocked |-> IF chk.rateOk THEN 0 ELSE 1,
         detected |-> (IF chk.rateOk THEN 0 ELSE 1) + (IF chk.idsOk THEN 0 ELSE 1),
         send |-> chk.rateOk /\ chk.idsOk]

\* BusFloodingAttack.execute, one iteration
FloodOutcome ==
    LET chk == SecChecks(FloodId)
    IN  [chk |-> chk,
         blocked |-> IF chk.rateOk THEN 0 ELSE 1,
         detected |-> (IF chk.rateOk THEN 0 ELSE 1) + (IF chk.idsOk THEN 0 ELSE 1),
         send |-> chk.rateOk]

\* a spoofing attempt that looks at encryption before authentication
SpoofOutcomeEncryptionFirst ==
    IF measures["encryption"]
    THEN [chk |-> NoChecks, blocked |-> 0, detected |-> 1, send |-> FALSE]
    ELSE IF measures["authentication"]
    THEN [chk |-> NoChecks, blocked |-> 1, detected |-> 1, send |-> FALSE]
    ELSE [chk |-> NoChecks, blocked |-> 0, detected |-> 0, send |-> TRUE]

\* SpoofingAttack.execute, one target
SpoofOutcome ==
    IF measures["authentication"]
    THEN [chk |-> NoChecks, blocked |-> 1, detected |-> 1, send |-> FALSE]
    ELSE IF measures["encryption"]
    THEN [chk |-> NoChecks, blocked |-> 0, detected |-> 1, send |-> FALSE]
    ELSE [chk |-> NoChecks, blocked |-> 0, detected |-> 0, send |-> TRUE]

\* a replay attempt that authentication stops
ReplayOutcomeAuthBlocks(id) ==
    LET chk == SecChecks(id)
        stopped == ~chk.rateOk \/ measures["authentication"]
    IN  [chk |-> chk,
         blocked |-> IF stopped THEN 1 ELSE 0,
         detected |-> (IF stopped THEN 1 ELSE 0) + (IF chk.idsOk THEN 0 ELSE 1),
         send |-> ~stopped]

\* a replay attempt that counts a detection whether authentication is on or off
ReplayOutcomeAlwaysDetected(id) ==
    LET chk == SecChecks(id)
    IN  [chk |-> chk,
         blocked |-> IF chk.rateOk THEN 0 ELSE 1,
         detected |-> (IF chk.rateOk THEN 0 ELSE 1)
                      + (IF chk.idsOk THEN 0 ELSE 1)
                      + (IF chk.rateOk THEN 1 ELSE 0),
         send |-> chk.rateOk]

\* ReplayAttack.execute, one repeat of one captured message
ReplayOutcome(id) ==
    LET chk == SecChecks(id)
    IN  [chk |-> chk,
         blocked |-> IF chk.rateOk THEN 0 ELSE 1,
         detected |-> (IF chk.rateOk THEN 0 ELSE 1)
                      + (IF chk.idsOk THEN 0 ELSE 1)
                      + (IF measures["authentication"] /\ chk.rateOk THEN 1 ELSE 0),
         send |-> chk.rateOk]

\* the node an attempt marks compromised when its frame is sent
SpoofMarker(id) == IF id = 160 THEN {"BrakeECU"}
                   ELSE IF id \in {768, 769} THEN {"BodyECU"} ELSE {}

Attempt(name, out, id, data, markers) ==
    LET frame == CANFrame(id, data, "ATTACKER", next_uid)
    IN  /\ attack_stats' = [attack_stats EXCEPT
              ![name].attempts = @ + 1,
              ![name].blocked = @ + out.blocked,
              ![name].detected = @ + out.detected,
              ![name].successful = @ + (IF out.send THEN 1 ELSE 0)]
        /\ rate_windows' = out.chk.wins
        /\ learning_samples' = out.chk.samples
        /\ message_baseline' = out.chk.base
        /\ sec_stats' = [sec_stats EXCEPT
              !.rate_limit_violations = @ + out.chk.violations,
              !.anomalies_detected = @ + out.chk.anomalies]
        /\ IF out.send
           THEN /\ tx_queue' = BusSend(tx_queue, frame)
                /\ accepted' = accepted \cup {frame.uid}
                /\ next_uid' = next_uid + 1
                /\ compromised_nodes' = compromised_nodes \cup markers
                /\ bus_compromised' = IF name = "bus_flooding" THEN TRUE
                                      ELSE bus_compromised
           ELSE UNCHANGED <<tx_queue, accepted, next_uid, compromised_nodes,
                            bus_compromised>>
        /\ UNCHANGED <<measures, learning_phase>>
        /\ UNCHANGED <<total_messages, bus_frame, bus_idx>>
        /\ UNCHANGED <<active_attacks, attack_log, running>>
        /\ UNCHANGED <<ctrlVars, now, dequeued, recv_log, last_call, toggle_result, pending, op_count, legit_windows, scanning>>

FloodAttempt(t) ==
    /\ tasks[t].name = "bus_flooding"
    /\ tasks[t].pc = "body"
    /\ Attempt("bus_flooding", FloodOutcome, FloodId, FloodData, {})
    /\ tasks' = [tasks EXCEPT ![t].pc = "loop"]

SpoofAttempt(t) ==
    /\ tasks[t].name = "spoofing"
    /\ tasks[t].pc = "body"
    /\ LET tg == SpoofTargets[tasks[t].i]
       IN Attempt("spoofing", SpoofOutcome, tg.id, tg.data, SpoofMarker(tg.id))
    /\ tasks' = [tasks EXCEPT
          ![t] = IF @.i < Len(SpoofTargets)
                 THEN [@ EXCEPT !.i = @ + 1]
                 ELSE [@ EXCEPT !.pc = "loop"]]

ReplayAttempt(t) ==
    /\ tasks[t].name = "replay"
    /\ tasks[t].pc = "body"
    /\ LET cp == ReplayCaptured[tasks[t].i]
       IN Attempt("replay", ReplayOutcome(cp.id), cp.id, cp.data, {"EngineECU"})
    /\ tasks' = [tasks EXCEPT
          ![t] = IF @.j < ReplayBurst THEN [@ EXCEPT !.j = @ + 1]
                 ELSE IF @.i < Len(ReplayCaptured)
                 THEN [@ EXCEPT !.i = @ + 1, !.j = 1]
                 ELSE [@ EXCEPT !.pc = "loop"]]

(***************************************************************************)
(* Specifications                                                          *)
(***************************************************************************)
\* payloads the ECU applications send
SendData == {<<0>>, <<1>>}

\* the arbitration IDs sent in the bus specification
SendIds == {160, 256}

\* The bus and the controllers: ECU sends while encryption is toggled, the
\* arbitration loop and its broadcast.
Next ==
    \/ \E m \in {"encryption"}, e \in BOOLEAN : ToggleSecurity(m, e)
    \/ \E c \in Controllers : \E id \in EcuIds[c] \cap SendIds, d \in SendData, iv \in IVs :
          next_uid <= MaxFrames /\ ControllerSend(c, id, d, iv)
    \/ ProcessBusPop
    \/ ProcessBusDeliver

Spec == Init /\ [][Next]_vars

\* The attack manager and the attack loops with every measure disabled, as
\* after construction; the commands include a name that is no registered attack.
CommandNames == AttackNames \cup {"unknown"}

TotalAttempts ==
    attack_stats["bus_flooding"].attempts + attack_stats["spoofing"].attempts
        + attack_stats["replay"].attempts

AttemptsLeft == TotalAttempts < MaxAttempts

NextAttack ==
    \/ \E n \in CommandNames : Len(attack_log) < MaxCalls /\ StartAttack(n)
    \/ \E n \in CommandNames : Len(attack_log) < MaxCalls /\ StopAttack(n)
    \/ \E t \in TaskIds : TaskBegin(t)
    \/ \E t \in TaskIds : TaskLoop(t)
    \/ \E t \in TaskIds : AttemptsLeft /\ FloodAttempt(t)
    \/ \E t \in TaskIds : AttemptsLeft /\ SpoofAttempt(t)
    \/ \E t \in TaskIds : AttemptsLeft /\ ReplayAttempt(t)

SpecAttack == Init /\ [][NextAttack]_vars

\* The spoofing attack against the defences: the measures are toggled at any
\* time while the attack is started, runs and is stopped.
NextSpoof ==
    \/ \E m \in Measures, e \in BOOLEAN : ToggleSecurity(m, e)
    \/ Len(attack_log) < MaxDefCalls /\ StartAttack("spoofing")
    \/ Len(attack_log) < MaxDefCalls /\ StopAttack("spoofing")
    \/ \E t \in TaskIds : TaskBegin(t)
    \/ \E t \in TaskIds : TaskLoop(t)
    \/ \E t \in TaskIds : TotalAttempts < MaxDefAttempts /\ SpoofAttempt(t)

SpecSpoof == Init /\ [][NextSpoof]_vars

\* The rate limiter in Controller.send: the transmission ECU sends its frame
\* again and again while rate limiting is toggled and the clock advances.
NextRate ==
    \/ \E e \in BOOLEAN : ToggleSecurity("rate_limiting", e)
    \/ \E d \in {<<1>>}, iv \in {256} :
          next_uid <= MaxSends /\ ControllerSend("TransmissionECU", 512, d, iv)
    \/ now < MaxTime /\ Tick

SpecRate == Init /\ [][NextRate]_vars

\* The replay attack after an IDS warm-up: authentication and IDS are switched
\* on before any traffic, the engine ECU sends its frame during the learning
\* phase, learning ends, and the replay attack is started; rate limiting is
\* switched on after the warm-up.
NextIds ==
    \/ \E m \in {"authentication", "ids"} : next_uid = 1 /\ ToggleSecurity(m, TRUE)
    \/ ~learning_phase /\ ToggleSecurity("rate_limiting", TRUE)
    \/ \E d \in {<<11, 184>>}, iv \in {256} :
          /\ learning_phase
          /\ next_uid <= MaxLearnSends
          /\ ControllerSend("EngineECU", 256, d, iv)
    \/ now < MaxTime /\ Tick
    \/ FinishLearning
    \/ ~learning_phase /\ attack_log = <<>> /\ StartAttack("replay")
    \/ \E t \in TaskIds : TaskBegin(t)
    \/ \E t \in TaskIds : TaskLoop(t)
    \/ \E t \in TaskIds : TotalAttempts < MaxIdsReplays /\ ReplayAttempt(t)

SpecIds == Init /\ [][NextIds]_vars

\* The IDS from warm-up to detection, in two runs.  Either the engine ECU sends
\* its frame during the learning phase and, after it, sends a burst while the
\* replay attack runs; or the flooding attack is started before any traffic
\* and runs through the learning phase and after it.  IDS is switched on
\* before the traffic, the learning phase ends once the learning samples are
\* in, rate limiting is switched on after it; the engine's burst follows the
\* switch.
FloodStarted == \E i \in 1..Len(attack_log) : attack_log[i].attack = "bus_flooding"

NextDetect ==
    \/ next_uid = 1 /\ attack_log = <<>> /\ ToggleSecurity("ids", TRUE)
    \/ ~learning_phase /\ ToggleSecurity("rate_limiting", TRUE)
    \/ \E d \in {<<11, 184>>}, iv \in {256} :
          /\ ~FloodStarted
          /\ IF learning_phase THEN next_uid <= MaxLearnSends
             ELSE measures["rate_limiting"] /\ Len(rate_windows[256]) < MaxBurst
          /\ ControllerSend("EngineECU", 256, d, iv)
    \/ now < MaxTime /\ Tick
    \/ next_uid > MaxLearnSends /\ FinishLearning
    \/ next_uid = 1 /\ learning_phase /\ attack_log = <<>> /\ StartAttack("bus_flooding")
    \/ ~learning_phase /\ attack_log = <<>> /\ StartAttack("replay")
    \/ \E t \in TaskIds : TaskBegin(t)
    \/ \E t \in TaskIds : TaskLoop(t)
    \/ \E t \in TaskIds : TotalAttempts < MaxLearnSends + MaxBurst /\ FloodAttempt(t)
    \/ \E t \in TaskIds : TotalAttempts < MaxBurst /\ ReplayAttempt(t)

SpecDetect == Init /\ [][NextDetect]_vars

\* The rate limiter over more than its window: rate limiting is switched on
\* before the traffic, the transmission ECU sends again and again (the engine
\* ECU among its first frames), and the clock runs until the entries of the
\* first tick have aged out.
NextRecover ==
    \/ next_uid = 1 /\ ToggleSecurity("rate_limiting", TRUE)
    \/ \E d \in {<<1>>}, iv \in {256} :
          /\ measures["rate_limiting"]
          /\ Len(rate_windows[512]) < MaxSends
          /\ ControllerSend("TransmissionECU", 512, d, iv)
    \/ \E d \in {<<11, 184>>}, iv \in {256} :
          /\ measures["rate_limiting"]
          /\ next_uid <= MaxBurst
          /\ ControllerSend("EngineECU", 256, d, iv)
    \/ now < RateWindowTicks /\ Tick

SpecRecover == Init /\ [][NextRecover]_vars

\* The IDS under the engine ECU's traffic alone: IDS is switched on before the
\* traffic, rate limiting before it or once the learning samples are in, and
\* the learning phase ends after them.
NextLearn ==
    \/ next_uid = 1 /\ ToggleSecurity("ids", TRUE)
    \/ (next_uid = 1 \/ next_uid > MaxLearnSends) /\ ToggleSecurity("rate_limiting", TRUE)
    \/ \E d \in {<<11, 184>>}, iv \in {256} :
          /\ next_uid <= MaxLearnSends + MaxBurst
          /\ ControllerSend("EngineECU", 256, d, iv)
    \/ now < MaxTime /\ Tick
    \/ next_uid > MaxLearnSends /\ FinishLearning

SpecLearn == Init /\ [][NextLearn]_vars

\* The receive pipeline: the brake ECU sends its pressure frame once the
\* previous one has been broadcast, while
\* encryption and authentication are toggled, the clock advances while a frame
\* is queued or on the bus, and the arbitration loop broadcasts.
NextReceive ==
    \/ \E m \in {"encryption", "authentication"}, e \in BOOLEAN : ToggleSecurity(m, e)
    \/ \E d \in {<<1>>}, iv \in {256} :
          /\ next_uid <= MaxRecvFrames
          /\ tx_queue = <<>> /\ bus_frame = NoFrame
          /\ ControllerSend("BrakeECU", 160, d, iv)
    \/ now < MaxTime /\ (tx_queue # <<>> \/ bus_frame # NoFrame) /\ Tick
    \/ ProcessBusPop
    \/ ProcessBusDeliver

SpecReceive == Init /\ [][NextReceive]_vars

\* The flooding attack against measures chosen before it starts; the attack is
\* not stopped.  The execute thread keeps running (weak fairness on its steps),
\* and it makes its attempts faster than the clock's bound lets time pass.
NextFlood ==
    \/ \E m \in {"encryption", "authentication", "rate_limiting"}, e \in BOOLEAN :
          attack_log = <<>> /\ ToggleSecurity(m, e)
    \/ attack_log = <<>> /\ StartAttack("bus_flooding")
    \/ \E t \in TaskIds : TaskBegin(t)
    \/ \E t \in TaskIds : TaskLoop(t)
    \/ \E t \in TaskIds : TotalAttempts < MaxFloods /\ FloodAttempt(t)
    \/ now < MaxTime /\ Tick

FloodFairness ==
    \A t \in TaskIds :
       /\ WF_vars(TaskBegin(t))
       /\ WF_vars(TaskLoop(t))
       /\ WF_vars(TotalAttempts < MaxFloods /\ FloodAttempt(t))

SpecFlood == Init /\ [][NextFlood]_vars /\ FloodFairness

\* The replay attack against the defences: authentication, IDS and rate
\* limiting are chosen before any traffic (rate limiting also after the
\* warm-up), the engine ECU sends its frame during the learning phase, learning
\* ends, and the replay attack is started.
NextReplay ==
    \/ \E m \in {"authentication", "ids", "rate_limiting"} :
          next_uid = 1 /\ ToggleSecurity(m, TRUE)
    \/ ~learning_phase /\ ToggleSecurity("rate_limiting", TRUE)
    \/ \E d \in {<<11, 184>>}, iv \in {256} :
          /\ learning_phase
          /\ next_uid <= MaxLearnSends
          /\ ControllerSend("EngineECU", 256, d, iv)
    \/ now < MaxTime /\ Tick
    \/ next_uid > MaxLearnSends /\ FinishLearning
    \/ ~learning_phase /\ attack_log = <<>> /\ StartAttack("replay")
    \/ \E t \in TaskIds : TaskBegin(t)
    \/ \E t \in TaskIds : TaskLoop(t)
    \/ \E t \in TaskIds : TotalAttempts < MaxIdsReplays /\ ReplayAttempt(t)

SpecReplay == Init /\ [][NextReplay]_vars

\* toggle_security called with every measure name and with a name that is no
\* measure, while the transmission ECU sends its frame.
ToggleNames == Measures \cup {"firewall"}

NextToggle ==
    \/ \E m \in ToggleNames, e \in BOOLEAN : ToggleSecurity(m, e)
    \/ \E d \in {<<1>>}, iv \in {256} :
          next_uid <= MaxToggleSends /\ ControllerSend("TransmissionECU", 512, d, iv)

SpecToggle == Init /\ [][NextToggle]_vars

\* Cancellation: the attacks are started and stopped while their execute
\* threads run; every thread keeps being scheduled (weak fairness on its
\* steps).  The attempts are bounded while the attack is active; the iteration
\* in progress when the attack is stopped runs to its end.
MayAttempt(t) == AttemptsLeft \/ tasks[t].name \notin active_attacks

ThreadStep(t) ==
    \/ TaskBegin(t)
    \/ TaskLoop(t)
    \/ MayAttempt(t) /\ FloodAttempt(t)
    \/ MayAttempt(t) /\ SpoofAttempt(t)
    \/ MayAttempt(t) /\ ReplayAttempt(t)

NextCancel ==
    \/ \E n \in AttackNames : Len(attack_log) < MaxDefCalls /\ StartAttack(n)
    \/ \E n \in AttackNames : Len(attack_log) < MaxDefCalls /\ StopAttack(n)
    \/ \E t \in TaskIds : TaskBegin(t)
    \/ \E t \in TaskIds : TaskLoop(t)
    \/ \E t \in TaskIds : MayAttempt(t) /\ FloodAttempt(t)
    \/ \E t \in TaskIds : MayAttempt(t) /\ SpoofAttempt(t)
    \/ \E t \in TaskIds : MayAttempt(t) /\ ReplayAttempt(t)

SpecCancel == Init /\ [][NextCancel]_vars /\ \A t \in TaskIds : WF_vars(ThreadStep(t))

\* The SecurityManager called concurrently by two ECU threads and the replay
\* attack's thread, the measures chosen before the first call.
NoCalls ==
    /\ \A k \in CounterKeys : op_count[k] = 0
    /\ \A id \in AllIds : rate_windows[id] = <<>>

NextCounters ==
    \/ \E m \in {"encryption", "authentication", "rate_limiting"} :
          NoCalls /\ ToggleSecurity(m, TRUE)
    \/ \E th \in Threads :
          op_count["messages_encrypted"] < MaxCounterCalls /\ EncryptCall(th)
    \/ \E th \in Threads :
          op_count["messages_authenticated"] < MaxCounterCalls /\ AddHmacCall(th)
    \/ \E th \in Threads :
          /\ Len(rate_windows[ThreadRateId[th]])
                < (IF th = "EngineECU" THEN MaxBurst ELSE MaxSends)
          /\ CheckRateLimitCall(th)
    \/ \E th \in Threads : CounterWrite(th)

SpecCounters == Init /\ [][NextCounters]_vars

\* Injection: encryption is switched on, the engine ECU sends a frame, and the
\* replay attack puts its captured plaintext frames on the bus, which the
\* arbitration loop broadcasts.
NextInject ==
    \/ next_uid = 1 /\ attack_log = <<>> /\ ToggleSecurity("encryption", TRUE)
    \/ \E d \in {<<11, 184>>}, iv \in {256} :
          next_uid = 1 /\ ControllerSend("EngineECU", 256, d, iv)
    \/ attack_log = <<>> /\ StartAttack("replay")
    \/ \E t \in TaskIds : TaskBegin(t)
    \/ \E t \in TaskIds : TaskLoop(t)
    \/ \E t \in TaskIds : AttemptsLeft /\ ReplayAttempt(t)
    \/ ProcessBusPop
    \/ ProcessBusDeliver

SpecInject == Init /\ [][NextInject]_vars

\* Starvation: the flooding attack runs without end while the engine ECU has a
\* frame pending, every measure disabled.  For the state space to be finite
\* the flood's frames are not tracked in the history (uid 0), the counters
\* that only grow are counted up to MaxCount, and the flood sends while fewer
\* than MaxPending frames are queued.  The arbitration loop keeps running
\* (weak fairness on its step).
CountUp(n) == IF n < MaxCount THEN n + 1 ELSE n

\* BusFloodingAttack.execute, one iteration with rate limiting and IDS disabled
FloodSendCyclic(t) ==
    /\ tasks[t].name = "bus_flooding"
    /\ tasks[t].pc = "body"
    /\ ~measures["rate_limiting"] /\ ~measures["ids"]
    /\ Len(tx_queue) < MaxPending
    /\ attack_stats' = [attack_stats EXCEPT
          !["bus_flooding"].attempts = CountUp(@),
          !["bus_flooding"].successful = CountUp(@)]
    /\ tx_queue' = BusSend(tx_queue, CANFrame(FloodId, FloodData, "ATTACKER", 0))
    /\ bus_compromised' = TRUE
    /\ tasks' = [tasks EXCEPT ![t].pc = "loop"]
    /\ UNCHANGED <<total_messages, bus_frame, bus_idx>>
    /\ UNCHANGED <<active_attacks, compromised_nodes, attack_log, running>>
    /\ UNCHANGED <<secVars, ctrlVars, now, histVars>>

\* process_bus, one dequeue
ProcessBusPopCyclic ==
    /\ bus_frame = NoFrame
    /\ tx_queue # <<>>
    /\ LET r == HeapPop(tx_queue)
       IN /\ bus_frame' = r[1]
          /\ tx_queue' = r[2]
          /\ dequeued' = IF r[1].uid = 0 THEN dequeued ELSE Append(dequeued, r[1].uid)
    /\ total_messages' = CountUp(total_messages)
    /\ bus_idx' = 1
    /\ UNCHANGED <<bus_compromised, secVars, ctrlVars, mgrVars, now>>
    /\ UNCHANGED <<next_uid, accepted, recv_log, last_call, toggle_result, pending, op_count, legit_windows, scanning>>

\* process_bus, node.receive(frame) for the next receiver
ProcessBusDeliverCyclic ==
    /\ bus_frame # NoFrame
    /\ LET c == receivers[bus_idx]
       IN /\ Receive(c, bus_frame)
          /\ recv_log' = IF bus_frame.uid = 0 THEN recv_log
                         ELSE [recv_log EXCEPT ![c] = Append(@, bus_frame.uid)]
    /\ IF bus_idx < Len(receivers)
       THEN bus_idx' = bus_idx + 1 /\ bus_frame' = bus_frame
       ELSE bus_idx' = 1 /\ bus_frame' = NoFrame
    /\ UNCHANGED security_overhead_history
    /\ UNCHANGED <<tx_queue, total_messages, bus_compromised>>
    /\ UNCHANGED <<secVars, mgrVars, now>>
    /\ UNCHANGED <<next_uid, accepted, dequeued, last_call, toggle_result, pending, op_count, legit_windows, scanning>>

NextStarve ==
    \/ \E d \in {<<11, 184>>}, iv \in {256} :
          next_uid = 1 /\ ControllerSend("EngineECU", 256, d, iv)
    \/ attack_log = <<>> /\ StartAttack("bus_flooding")
    \/ \E t \in TaskIds : TaskBegin(t)
    \/ \E t \in TaskIds : TaskLoop(t)
    \/ \E t \in TaskIds : FloodSendCyclic(t)
    \/ ProcessBusPopCyclic
    \/ ProcessBusDeliverCyclic

SpecStarve ==
    Init /\ [][NextStarve]_vars
         /\ WF_vars(ProcessBusPopCyclic \/ ProcessBusDeliverCyclic)

\* The ECU applications at their nominal periods, rate limiting enabled before
\* the traffic and no attack.  Each ECU's run loop sends its frames and sleeps
\* for its period, so within one tick of the clock it completes MsPerTick
\* divided by its period iterations; the clock advances when every ECU has
\* done so.
EcuPeriodMs ==
    [c \in Controllers |->
        CASE c = "EngineECU" -> 50
          [] c = "BrakeECU" -> 10
          [] c = "TransmissionECU" -> 80
          [] c = "BodyECU" -> 100]

\* the frames of one iteration of each ECU's run loop, in order
EcuFrames ==
    [c \in Controllers |->
        CASE c = "EngineECU" -> <<[id |-> 256, data |-> <<11, 184>>],
                                  [id |-> 257, data |-> <<90>>]>>
          [] c = "BrakeECU" -> <<[id |-> 160, data |-> <<0>>],
                                 [id |-> 161, data |-> <<1>>]>>
          [] c = "TransmissionECU" -> <<[id |-> 512, data |-> <<1>>]>>
          [] c = "BodyECU" -> <<[id |-> 768, data |-> <<1>>],
                                [id |-> 769, data |-> <<1>>]>>]

IterationsPerTick(c) == MsPerTick \div EcuPeriodMs[c]

\* sends of an ID stamped with the current tick (check_rate_limit records each)
SentThisTick(id) ==
    Cardinality({i \in 1..Len(rate_windows[id]) : rate_windows[id][i] = now})

\* the position in the iteration: the first frame whose ID was sent fewer times
\* this tick than the iteration's first ID, or the first frame of a new iteration
NextFrameIndex(c) ==
    LET fs == EcuFrames[c]
        behind == {k \in 2..Len(fs) : SentThisTick(fs[k].id) < SentThisTick(fs[1].id)}
    IN IF behind = {} THEN 1 ELSE CHOOSE k \in behind : \A j \in behind : k <= j

IterationsDone(c) == SentThisTick(EcuFrames[c][Len(EcuFrames[c])].id)

\* the next ctrl.send of ECU c's run loop
EcuSend(c) ==
    /\ IterationsDone(c) < IterationsPerTick(c)
    /\ LET f == EcuFrames[c][NextFrameIndex(c)]
       IN ControllerSend(c, f.id, f.data, 256)

\* ECU c has sent nothing yet
Idle(c) == rate_windows[EcuFrames[c][1].id] = <<>>

\* Rate windows are kept per ID and the ECUs send disjoint IDs, so each ECU is
\* followed on its own: the ECU that sent the first frame is the one that runs.
PaceTick ==
    /\ \E c \in Controllers : ~Idle(c)
    /\ \A c \in Controllers : Idle(c) \/ IterationsDone(c) = IterationsPerTick(c)
    /\ Tick

NextPace ==
    \/ next_uid = 1 /\ ToggleSecurity("rate_limiting", TRUE)
    \/ \E c \in Controllers :
          /\ measures["rate_limiting"]
          /\ \A d \in Controllers \ {c} : Idle(d)
          /\ EcuSend(c)
    \/ now < MaxTime /\ PaceTick

SpecPace == Init /\ [][NextPace]_vars

\* The replay attack beside legitimate senders of the IDs it replays, rate
\* limiting enabled before the traffic.  EngineECU's 0x100 or TransmissionECU's
\* 0x200 is followed (one sender per run), the attack is started once the
\* sender has sent InterfereAfter frames, and it makes one pass over its
\* captured frames.
InterfereAfter == 17

InterfereSenders == {[c |-> "EngineECU", id |-> 256, data |-> <<11, 184>>],
                     [c |-> "TransmissionECU", id |-> 512, data |-> <<1>>]}

NextInterfere ==
    \/ next_uid = 1 /\ ToggleSecurity("rate_limiting", TRUE)
    \/ \E s \in InterfereSenders :
          /\ measures["rate_limiting"]
          /\ \A o \in InterfereSenders \ {s} : legit_windows[o.id] = <<>>
          /\ Len(legit_windows[s.id]) < MaxSends
          /\ ControllerSend(s.c, s.id, s.data, 256)
    \/ now < MaxTime /\ attack_log # <<>> /\ Tick
    \/ /\ \E s \in InterfereSenders : Len(legit_windows[s.id]) >= InterfereAfter
       /\ attack_log = <<>>
       /\ StartAttack("replay")
    \/ \E t \in TaskIds : TaskBegin(t)
    \/ \E t \in TaskIds : TaskLoop(t)
    \/ \E t \in TaskIds :
          TotalAttempts < ReplayBurst * Len(ReplayCaptured) /\ ReplayAttempt(t)

SpecInterfere == Init /\ [][NextInterfere]_vars

\* check_rate_limit called concurrently by two ECU threads and the replay
\* attack's thread, rate limiting enabled before the first call.
NextScan ==
    \/ NoCalls /\ ToggleSecurity("rate_limiting", TRUE)
    \/ \E th \in Threads :
          Len(rate_windows[ThreadRateId[th]]) < MaxBurst /\ ScanBegin(th)
    \/ \E th \in Threads : ScanEnd(th)
    \/ now < MaxTime /\ Tick

SpecScan == Init /\ [][NextScan]_vars

\* The default start-up: every measure is off while CANSimulation.start warms
\* up and ends the learning phase.  Afterwards rate limiting is switched on
\* before the traffic resumes and IDS at any time, the engine ECU keeps
\* sending, and the replay attack is started once the engine has sent
\* MaxLearnSends frames.
NextDefault ==
    \/ \E d \in {<<11, 184>>}, iv \in {256} :
          /\ next_uid <= (IF learning_phase THEN MaxBurst ELSE MaxBurst + MaxSends)
          /\ ControllerSend("EngineECU", 256, d, iv)
    \/ ~measures["ids"] /\ FinishLearning
    \/ ~learning_phase /\ ToggleSecurity("ids", TRUE)
    \/ /\ ~learning_phase
       /\ \A id \in AllIds : rate_windows[id] = <<>>
       /\ next_uid <= MaxBurst + 1
       /\ ToggleSecurity("rate_limiting", TRUE)
    \/ now < MaxTime /\ (learning_phase \/ attack_log # <<>>) /\ Tick
    \/ /\ ~learning_phase
       /\ next_uid > MaxLearnSends
       /\ attack_log = <<>>
       /\ StartAttack("replay")
    \/ \E t \in TaskIds : TaskBegin(t)
    \/ \E t \in TaskIds : TaskLoop(t)
    \/ \E t \in TaskIds : TotalAttempts < MaxIdsReplays /\ ReplayAttempt(t)

SpecDefault == Init /\ [][NextDefault]_vars

(***************************************************************************)
(* Claims                                                                  *)
(***************************************************************************)
\* the bus order as the specification states it: arbitration_id ascending,
\* then the payload bytes ascending, lexicographically
PayloadBefore(a, b) ==
    \/ Len(a) < Len(b) /\ \A i \in 1..Len(a) : a[i] = b[i]
    \/ \E k \in 1..Len(a) :
          /\ k <= Len(b)
          /\ a[k] < b[k]
          /\ \A i \in 1..(k - 1) : a[i] = b[i]

Before(a, b) ==
    \/ a.arbitration_id < b.arbitration_id
    \/ a.arbitration_id = b.arbitration_id /\ PayloadBefore(a.data, b.data)

\* C1: whenever the arbitration loop dequeues a frame, no frame pending at that
\* moment comes before it in the order (arbitration_id, payload bytes): the
\* dequeued frame is the minimum of the pending frames, whatever order they
\* were sent in.
C1_DequeuesMinimum ==
    [][dequeued' # dequeued =>
          /\ \E i \in 1..Len(tx_queue) : tx_queue[i] = bus_frame'
          /\ \A i \in 1..Len(tx_queue) : ~Before(tx_queue[i], bus_frame')]_vars

\* a frame was dequeued ahead of pending frames that were sent before it, one
\* of them with the same arbitration ID and a later payload
C1_Witness ==
    /\ bus_frame # NoFrame
    /\ Len(tx_queue) >= 2
    /\ \A i \in 1..Len(tx_queue) : tx_queue[i].uid < bus_frame.uid
    /\ \E i \in 1..Len(tx_queue) :
          /\ tx_queue[i].arbitration_id = bus_frame.arbitration_id
          /\ PayloadBefore(bus_frame.data, tx_queue[i].data)

PendingUids == {tx_queue[i].uid : i \in 1..Len(tx_queue)}

\* C2: every frame accepted by VirtualCANBus.send is either pending or has been
\* dequeued exactly once; every dequeued frame is delivered exactly once to each
\* registered controller, in registration order; total_messages is the number of
\* frames dequeued.
C2_NoDropNoDuplicate ==
    /\ Cardinality(PendingUids) = Len(tx_queue)
    /\ Cardinality(Range(dequeued)) = Len(dequeued)
    /\ PendingUids \cap Range(dequeued) = {}
    /\ PendingUids \cup Range(dequeued) = accepted
    /\ total_messages = Len(dequeued)
    /\ bus_frame # NoFrame => dequeued # <<>> /\ bus_frame.uid = Last(dequeued)
    /\ \A k \in 1..Len(receivers) :
          recv_log[receivers[k]] =
             IF bus_frame # NoFrame /\ k >= bus_idx THEN Front(dequeued) ELSE dequeued

\* two frames were broadcast, a third is half way through its broadcast
C2_Witness ==
    /\ Len(dequeued) = 3
    /\ bus_frame # NoFrame
    /\ bus_idx = 3
    /\ Len(recv_log["EngineECU"]) = 3
    /\ Len(recv_log["BodyECU"]) = 2

\* C3: at most one execute loop of a given attack name is running.
C3_AtMostOneLoop ==
    \A n \in AttackNames :
       Cardinality({t \in TaskIds : tasks[t].name = n /\ tasks[t].pc = "body"}) <= 1

OnlyCallChanged ==
    UNCHANGED <<secVars, busVars, ctrlVars, mgrVars, now, next_uid, accepted,
                dequeued, recv_log, toggle_result, pending, op_count, legit_windows, scanning>>

\* C4: start_attack(name) returns failure and changes nothing when name is not
\* registered or is already active; otherwise it returns success, adds name to
\* the active set and the attack's target_node to the compromised nodes,
\* launches exactly one execute task and appends exactly one 'started' event.
C4_StartAttack ==
    [][(last_call' # last_call /\ last_call'.op = "start") =>
          LET n == last_call'.name
          IN IF n \notin {"bus_flooding", "spoofing", "replay"} \/ n \in active_attacks
             THEN /\ last_call'.result = FALSE
                  /\ OnlyCallChanged
             ELSE /\ last_call'.result = TRUE
                  /\ active_attacks' = active_attacks \cup {n}
                  /\ compromised_nodes' = compromised_nodes \cup {target_node[n]}
                  /\ Len(attack_log') = Len(attack_log) + 1
                  /\ Front(attack_log') = attack_log
                  /\ Last(attack_log').attack = n
                  /\ Last(attack_log').action = "started"
                  /\ \E t \in TaskIds :
                        /\ tasks[t] = NoTask
                        /\ tasks'[t] = [name |-> n, pc |-> "begin", i |-> 1, j |-> 1]
                        /\ \A u \in TaskIds \ {t} : tasks'[u] = tasks[u]
                  /\ UNCHANGED <<attack_stats, running, secVars, busVars, ctrlVars>>]_vars

\* a start of an attack that is active was refused
C4_Witness ==
    /\ last_call.op = "start"
    /\ last_call.result = FALSE
    /\ last_call.name \in active_attacks
    /\ \E t \in TaskIds : tasks[t].name = last_call.name

\* the markers each attack introduces into the compromised nodes
Markers(n) ==
    CASE n = "spoofing" -> {"BrakeECU", "BodyECU"}
      [] n = "replay" -> {"EngineECU"}
      [] n = "bus_flooding" -> {"BUS_FLOODER"}

\* C5: stop_attack(name) returns failure and changes nothing when name is not
\* active; otherwise it returns success, removes name from the active set, clears
\* the attack's running flag, removes its compromise markers and appends exactly
\* one 'stopped' event.
C5_StopAttack ==
    [][(last_call' # last_call /\ last_call'.op = "stop") =>
          LET n == last_call'.name
          IN IF n \notin active_attacks
             THEN /\ last_call'.result = FALSE
                  /\ OnlyCallChanged
             ELSE /\ last_call'.result = TRUE
                  /\ active_attacks' = active_attacks \ {n}
                  /\ running'[n] = FALSE
                  /\ \A o \in AttackNames \ {n} : running'[o] = running[o]
                  /\ compromised_nodes' = compromised_nodes \ Markers(n)
                  /\ Len(attack_log') = Len(attack_log) + 1
                  /\ Front(attack_log') = attack_log
                  /\ Last(attack_log').attack = n
                  /\ Last(attack_log').action = "stopped"
                  /\ UNCHANGED <<attack_stats, tasks>>]_vars

\* a running spoofing attack that had marked BrakeECU was stopped
C5_Witness ==
    /\ last_call.op = "stop"
    /\ last_call.result = TRUE
    /\ last_call.name = "spoofing"
    /\ attack_stats["spoofing"].successful >= 1
    /\ compromised_nodes \cap {"BrakeECU", "BodyECU"} = {}
    /\ ~running["spoofing"]

\* AttackStatistics.success_rate / detection_rate, in whole percent (rounded down)
success_rate(st) ==
    IF st.attempts = 0 THEN 0 ELSE (st.successful * 100) \div st.attempts

detection_rate(st) ==
    IF st.attempts = 0 THEN 0 ELSE (st.detected * 100) \div st.attempts

\* C6: for every attack kind, success_rate and detection_rate lie in [0, 100],
\* that is successful <= attempts and detected <= attempts, and both are 0
\* when attempts = 0.
C6_RatesWithinBounds ==
    \A n \in AttackNames :
       LET st == attack_stats[n]
       IN /\ st.successful <= st.attempts
          /\ st.detected <= st.attempts
          /\ success_rate(st) \in 0..100
          /\ detection_rate(st) \in 0..100
          /\ st.attempts = 0 => success_rate(st) = 0 /\ detection_rate(st) = 0

SpoofAttemptStep ==
    attack_stats'["spoofing"].attempts = attack_stats["spoofing"].attempts + 1

\* C7: a spoofing attempt made while authentication is enabled is blocked: blocked
\* and detected grow by one each, successful does not change, no frame is
\* enqueued and no node is added to the compromised set.
C7_SpoofBlockedByAuth ==
    [][(SpoofAttemptStep /\ measures["authentication"]) =>
          /\ attack_stats'["spoofing"].blocked = attack_stats["spoofing"].blocked + 1
          /\ attack_stats'["spoofing"].detected = attack_stats["spoofing"].detected + 1
          /\ attack_stats'["spoofing"].successful = attack_stats["spoofing"].successful
          /\ tx_queue' = tx_queue
          /\ accepted' = accepted
          /\ compromised_nodes' = compromised_nodes]_vars

\* attempts were blocked with authentication on, with encryption on as well
C7_Witness ==
    /\ attack_stats["spoofing"].blocked >= 2
    /\ measures["authentication"]
    /\ measures["encryption"]

\* C8: while all four measures stay disabled, every attempt of the three attacks
\* enqueues its frame and counts as successful; blocked and detected stay 0.
C8_NoDefence ==
    (\A m \in Measures : ~measures[m]) =>
       /\ \A n \in AttackNames :
             /\ attack_stats[n].blocked = 0
             /\ attack_stats[n].detected = 0
             /\ attack_stats[n].successful = attack_stats[n].attempts
       /\ Len(tx_queue) = TotalAttempts
       /\ Cardinality(accepted) = TotalAttempts

\* each of the three attacks has made an attempt
C8_Witness ==
    /\ \A m \in Measures : ~measures[m]
    /\ \A n \in AttackNames : attack_stats[n].attempts >= 1

\* C9: a spoofing attempt made with encryption enabled and authentication
\* disabled counts as detected and as blocked: both counters grow by one,
\* successful does not change and no frame is sent.
C9_SpoofEncryptionCounted ==
    [][(SpoofAttemptStep /\ measures["encryption"] /\ ~measures["authentication"]) =>
          /\ attack_stats'["spoofing"].detected = attack_stats["spoofing"].detected + 1
          /\ attack_stats'["spoofing"].blocked = attack_stats["spoofing"].blocked + 1
          /\ attack_stats'["spoofing"].successful = attack_stats["spoofing"].successful
          /\ tx_queue' = tx_queue]_vars

\* a step of CANController.send: a controller stamped a new frame
ControllerSendStep == next_uid' = next_uid + 1

\* the events controller c logged in the step
NewEvents(c) == SubSeq(attack_events'[c], Len(attack_events[c]) + 1, Len(attack_events'[c]))

RateEvents(s) == {i \in 1..Len(s) : s[i].type = "rate_limit_violation"}

QueuedCopies(queue, uid) == Cardinality({i \in 1..Len(queue) : queue[i].uid = uid})

\* C10: in Controller.send with rate limiting enabled, a frame whose rate-limit
\* check fails never reaches the bus queue and exactly one rate_limit_violation
\* event is appended to the sending controller's attack-event log; a frame whose
\* check passes is enqueued exactly once and no such event is logged.
C10_RateLimitBlocksSend ==
    [][(ControllerSendStep /\ measures["rate_limiting"]) =>
          IF sec_stats'.rate_limit_violations # sec_stats.rate_limit_violations
          THEN /\ tx_queue' = tx_queue
               /\ accepted' = accepted
               /\ QueuedCopies(tx_queue', next_uid) = 0
               /\ \E c \in Controllers :
                     /\ Len(attack_events'[c]) = Len(attack_events[c]) + 1
                     /\ Cardinality(RateEvents(NewEvents(c))) = 1
                     /\ \A o \in Controllers \ {c} : attack_events'[o] = attack_events[o]
          ELSE /\ Len(tx_queue') = Len(tx_queue) + 1
               /\ QueuedCopies(tx_queue', next_uid) = 1
               /\ accepted' = accepted \cup {next_uid}
               /\ attack_events' = attack_events]_vars

\* the transmission ECU had frames enqueued and then one refused by the limiter
C10_Witness ==
    /\ measures["rate_limiting"]
    /\ Len(tx_queue) >= rate_limit_threshold
    /\ Len(tx_queue) < next_uid - 1
    /\ RateEvents(attack_events["TransmissionECU"]) # {}

\* a step of a sender: a controller's send or an attempt of an attack
SenderStep ==
    \/ next_uid' # next_uid
    \/ \E n \in AttackNames : attack_stats'[n].attempts # attack_stats[n].attempts

AnomalyStep == sec_stats'.anomalies_detected # sec_stats.anomalies_detected

AnomalyEvents(s) == {i \in 1..Len(s) : s[i].type = "anomaly_detected"}

\* C11: a failed IDS check never prevents transmission.  In Controller.send and
\* in the flooding and replay loops, a frame that rate limiting did not block is
\* enqueued once whether check_anomaly passes or fails; a failure only adds one
\* anomaly_detected event (controller) or one detected count (attack).
C11_IdsNeverBlocks ==
    [][(SenderStep
          /\ sec_stats'.rate_limit_violations = sec_stats.rate_limit_violations) =>
          /\ Len(tx_queue') = Len(tx_queue) + 1
          /\ QueuedCopies(tx_queue', next_uid) = 1
          /\ accepted' = accepted \cup {next_uid}
          /\ AnomalyStep =>
                /\ attack_stats' = attack_stats =>
                      \E c \in Controllers :
                         /\ Len(attack_events'[c]) = Len(attack_events[c]) + 1
                         /\ Cardinality(AnomalyEvents(NewEvents(c))) = 1
                /\ attack_stats' # attack_stats =>
                      /\ attack_events' = attack_events
                      /\ \E n \in {"bus_flooding", "replay"} :
                            /\ attack_stats'[n].detected >= attack_stats[n].detected + 1
                            /\ attack_stats'[n].successful = attack_stats[n].successful + 1
                            /\ attack_stats'[n].blocked = attack_stats[n].blocked]_vars

\* the engine controller and the replay attack each had an anomaly reported,
\* and every frame they sent is on the bus
C11_Witness ==
    /\ AnomalyEvents(attack_events["EngineECU"]) # {}
    /\ attack_stats["replay"].detected >= 1
    /\ sec_stats.anomalies_detected >= 2
    /\ Len(tx_queue) = next_uid - 1

\* the entries of a window younger than one second at time t
YoungCount(w, t) == Cardinality({i \in 1..Len(w) : t - w[i] < TicksPerSecond})

ViolationStep == sec_stats'.rate_limit_violations = sec_stats.rate_limit_violations + 1

NoViolationStep == sec_stats'.rate_limit_violations = sec_stats.rate_limit_violations

C13_RateLimiterRecovers ==
    [][(ControllerSendStep /\ measures["rate_limiting"]) =>
          \A id \in AllIds :
             rate_windows'[id] # rate_windows[id] =>
                /\ YoungCount(rate_windows[id], now) > rate_limit_threshold
                      => ViolationStep /\ tx_queue' = tx_queue
                /\ YoungCount(rate_windows[id], now) = 0
                      => NoViolationStep /\ Len(tx_queue') = Len(tx_queue) + 1]_vars

\* the transmission ECU was refused, its window aged out, and it sent again
C13_Witness ==
    /\ RateEvents(attack_events["TransmissionECU"]) # {}
    /\ Len(rate_windows[512]) > rate_limit_threshold + 1
    /\ YoungCount(rate_windows[512], now) = 1
    /\ \E i \in 1..Len(tx_queue) :
          tx_queue[i].uid = next_uid - 1 /\ tx_queue[i].arbitration_id = 512

\* C14: while the SecurityManager is in its learning phase, every check_anomaly
\* call passes: anomalies_detected does not grow and no anomaly_detected event
\* is logged, whatever the ID's baseline and window are.
C14_LearningNeverFails ==
    [][learning_phase =>
          /\ sec_stats'.anomalies_detected = sec_stats.anomalies_detected
          /\ \A c \in Controllers :
                Cardinality(AnomalyEvents(attack_events'[c]))
                   = Cardinality(AnomalyEvents(attack_events[c]))]_vars

\* still learning, with a baseline for the engine's ID and a check made on a
\* window of three entries of the same tick, which detection would report
C14_Witness ==
    /\ learning_phase
    /\ measures["ids"]
    /\ message_baseline[256].count >= IdsMinSamples
    /\ message_baseline[256].sum > 0
    /\ Len(rate_windows[256]) >= 3
    /\ \A i \in 1..Len(rate_windows[256]) : rate_windows[256][i] = now
    /\ Last(learning_samples[256]) = now
    /\ Len(learning_samples[256]) = MaxLearnSends + MaxBurst
    /\ sec_stats.anomalies_detected = 0

\* the engine frames sent after the learning phase within the current tick:
\* each send of the learning phase left a sample or a rate-limit violation
BurstFrames ==
    {i \in 1..Len(tx_queue) :
        /\ tx_queue[i].arbitration_id = 256
        /\ tx_queue[i].send_time = now
        /\ tx_queue[i].uid > Len(learning_samples[256])
                                + sec_stats.rate_limit_violations}

\* C15: after learning has ended with a baseline established for an ID, a burst
\* of sends of that ID checked by check_anomaly at three times the baseline
\* frequency or more (here three sends within one tick, against a baseline with
\* a positive average interval) has check_anomaly report an anomaly at least
\* once, whichever other measures are enabled.
C15_BurstReported ==
    (/\ ~learning_phase
     /\ measures["ids"]
     /\ message_baseline[256].count >= IdsMinSamples
     /\ message_baseline[256].sum > 0
     /\ Cardinality(BurstFrames) >= 3)
       => sec_stats.anomalies_detected >= 1

\* a step of process_bus that hands the frame on the bus to the next controller
DeliverStep == recv_log' # recv_log

\* the verification stages as the specification orders them: the MAC first
MacFails(f) ==
    measures["authentication"] /\ f.authenticated /\ ~HmacValid(f.data)

AfterMac(f) ==
    IF measures["authentication"] /\ f.authenticated THEN Front(f.data) ELSE f.data

DecryptFails(f) ==
    measures["encryption"] /\ f.encrypted /\ ~DecryptValid(AfterMac(f))

\* C16: Controller.receive verifies the MAC before it decrypts and aborts on the
\* first failure: a failed MAC verification or a failed decryption appends
\* exactly one event (authentication_failed or decryption_failed), sets health
\* to warning, and appends nothing to the latency history or the message log;
\* a frame that passes both logs no event.
C16_ReceiveAbortsOnFailure ==
    [][DeliverStep =>
          LET c == receivers[bus_idx]
              f == bus_frame
              failure == IF MacFails(f) THEN "authentication_failed"
                         ELSE IF DecryptFails(f) THEN "decryption_failed"
                         ELSE "none"
          IN /\ \A o \in Controllers \ {c} :
                   /\ attack_events'[o] = attack_events[o]
                   /\ health_status'[o] = health_status[o]
                   /\ log'[o] = log[o]
                   /\ latency_history'[o] = latency_history[o]
             /\ IF failure # "none"
                THEN /\ attack_events'[c] =
                           Append(attack_events[c], Event(failure, f.arbitration_id))
                     /\ health_status'[c] = "warning"
                     /\ latency_history'[c] = latency_history[c]
                     /\ log'[c] = log[c]
                ELSE /\ attack_events'[c] = attack_events[c]
                     /\ IF f.arbitration_id \in Range(subscriptions[c])
                        THEN /\ Len(log'[c]) = Len(log[c]) + 1
                             /\ Len(latency_history'[c]) = Len(latency_history[c]) + 1
                        ELSE /\ log'[c] = log[c]
                             /\ latency_history'[c] = latency_history[c]]_vars

FailureEvents(s) ==
    {i \in 1..Len(s) : s[i].type \in {"authentication_failed", "decryption_failed"}}

\* a subscriber refused one frame at decryption and processed another frame
\* that carried both a MAC and a ciphertext
C16_Witness ==
    /\ \E i \in 1..Len(attack_events["EngineECU"]) :
          attack_events["EngineECU"][i].type = "decryption_failed"
    /\ Len(log["EngineECU"]) = 1
    /\ Len(recv_log["EngineECU"]) = 2
    /\ health_status["EngineECU"] = "warning"
    /\ measures["encryption"] /\ measures["authentication"]

\* the log entries of a critical- or safety-class ID beyond its class threshold
LateEntries(s) ==
    {i \in 1..Len(s) :
        \/ s[i].arb_id \in {160, 161} /\ s[i].latency > 10
        \/ s[i].arb_id \in {192, 193} /\ s[i].latency > 20}

HealthExplained ==
    \A c \in Controllers :
       /\ health_status[c] \in {"healthy", "warning"}
       /\ health_status[c] = "warning" <=>
             (FailureEvents(attack_events[c]) # {} \/ LateEntries(log[c]) # {})

\* C17: a controller's health starts healthy, never returns from warning to
\* healthy, and is warning iff the controller has had an authentication
\* failure, a decryption failure, or has received a subscribed critical- or
\* safety-class ID whose latency exceeded its class threshold.
C17_HealthDegradesOnly ==
    /\ \A c \in Controllers : health_status[c] = "healthy"
    /\ []HealthExplained
    /\ [][\A c \in Controllers :
            health_status[c] = "warning" => health_status'[c] = "warning"]_vars

\* one subscriber is in warning for a late brake frame alone, another for a
\* decryption failure alone, and a third is healthy after receiving frames
C17_Witness ==
    /\ \E c \in Controllers :
          /\ health_status[c] = "warning"
          /\ LateEntries(log[c]) # {} /\ FailureEvents(attack_events[c]) = {}
    /\ \E c \in Controllers :
          /\ health_status[c] = "warning"
          /\ LateEntries(log[c]) = {} /\ FailureEvents(attack_events[c]) # {}
    /\ \E c \in Controllers :
          health_status[c] = "healthy" /\ Len(log[c]) >= 1

\* the last event the manager logged for attack n
LastAction(n) ==
    LET idx == {i \in 1..Len(attack_log) : attack_log[i].attack = n}
    IN IF idx = {} THEN "none"
       ELSE attack_log[CHOOSE i \in idx : \A j \in idx : j <= i].action

\* no execute thread of attack n is left
LoopExited(n) == \A t \in TaskIds : tasks[t].name # n

\* C18: once stop_attack(name) has returned and the attack's loop has exited,
\* with no later start of the same attack, the compromised-node set holds none
\* of the markers that attack introduces, however the stop interleaved with the
\* iteration in flight.
C18_MarkersClearedAfterStop ==
    \A n \in AttackNames :
       (LastAction(n) = "stopped" /\ LoopExited(n))
          => compromised_nodes \cap Markers(n) = {}

\* C19: the bus's compromised flag is cleared on stop: in every state where
\* bus_flooding is not in the active set and no execute loop of it is running,
\* bus.compromised is false.
C19_BusFlagClearedOnStop ==
    ("bus_flooding" \notin active_attacks /\ LoopExited("bus_flooding"))
       => ~bus_compromised

FloodAttemptStep ==
    attack_stats'["bus_flooding"].attempts = attack_stats["bus_flooding"].attempts + 1

\* the rate check of ID 0 fails at the current time
FloodRateFails == YoungCount(Append(rate_windows[0], now), now) > 20

FloodBlockedEventually ==
    (measures["rate_limiting"] /\ "bus_flooding" \in active_attacks)
       ~> (attack_stats["bus_flooding"].blocked > 0)

\* C20: a bus_flooding attempt is blocked iff rate limiting is enabled and the
\* rate check of ID 0 fails; authentication and encryption neither block nor
\* detect a flooding attempt; and with rate limiting enabled while the flood
\* keeps running, blocked eventually becomes greater than 0.
C20_FloodBlockedByRateOnly ==
    /\ [][FloodAttemptStep =>
            LET old == attack_stats["bus_flooding"]
                new == attack_stats'["bus_flooding"]
            IN IF measures["rate_limiting"] /\ FloodRateFails
               THEN /\ new.blocked = old.blocked + 1
                    /\ new.detected = old.detected + 1
                    /\ new.successful = old.successful
                    /\ tx_queue' = tx_queue
               ELSE /\ new.blocked = old.blocked
                    /\ new.detected = old.detected
                    /\ new.successful = old.successful + 1
                    /\ Len(tx_queue') = Len(tx_queue) + 1]_vars
    /\ FloodBlockedEventually

\* with authentication, encryption and rate limiting on, twenty attempts went
\* through and the next was blocked
C20_Witness ==
    /\ measures["authentication"] /\ measures["encryption"] /\ measures["rate_limiting"]
    /\ attack_stats["bus_flooding"].successful = 20
    /\ attack_stats["bus_flooding"].blocked >= 1

ReplayAttemptStep ==
    attack_stats'["replay"].attempts = attack_stats["replay"].attempts + 1

\* C21: a replay attempt is blocked only by a failed rate-limit check, which
\* counts blocked and detected once each and sends nothing; an attempt that is
\* not blocked is sent and counted successful, and an IDS anomaly or enabled
\* authentication each add one to detected without blocking the frame.
C21_ReplayBlockedByRateOnly ==
    [][ReplayAttemptStep =>
          LET old == attack_stats["replay"]
              new == attack_stats'["replay"]
          IN IF ViolationStep
             THEN /\ measures["rate_limiting"]
                  /\ new.blocked = old.blocked + 1
                  /\ new.detected = old.detected + 1
                  /\ new.successful = old.successful
                  /\ tx_queue' = tx_queue
                  /\ ~AnomalyStep
             ELSE /\ new.blocked = old.blocked
                  /\ new.successful = old.successful + 1
                  /\ Len(tx_queue') = Len(tx_queue) + 1
                  /\ QueuedCopies(tx_queue', next_uid) = 1
                  /\ new.detected = old.detected
                        + (IF AnomalyStep THEN 1 ELSE 0)
                        + (IF measures["authentication"] THEN 1 ELSE 0)]_vars

\* a replay attempt was blocked by the rate limiter with authentication and IDS
\* enabled
C21_Witness ==
    /\ attack_stats["replay"].blocked >= 1
    /\ measures["authentication"] /\ measures["ids"] /\ measures["rate_limiting"]

\* C22: toggle_security(measure, enabled) with an unknown measure returns false
\* and changes no state; with a known measure it returns true, sets that measure
\* to enabled and leaves the other three measures, the counters, the rate
\* windows and the IDS baseline (and everything else) unchanged.
C22_ToggleSecurity ==
    [][\A m \in ToggleNames, e \in BOOLEAN :
          ToggleSecurity(m, e) =>
             /\ IF m \in Measures
                THEN /\ toggle_result'
                     /\ measures'[m] = e
                     /\ \A o \in Measures \ {m} : measures'[o] = measures[o]
                ELSE /\ ~toggle_result'
                     /\ measures' = measures
             /\ UNCHANGED <<sec_stats, rate_windows, message_baseline,
                            learning_phase, learning_samples>>
             /\ UNCHANGED <<busVars, ctrlVars, mgrVars, now>>
             /\ UNCHANGED <<next_uid, accepted, dequeued, recv_log, last_call,
                            pending, op_count, legit_windows, scanning>>]_vars

\* the last call named no measure, after calls that enabled measures and sends
\* that left counters, a rate window and learning samples
C22_Witness ==
    /\ ~toggle_result
    /\ measures["encryption"] /\ ~measures["authentication"]
    /\ measures["rate_limiting"] /\ measures["ids"]
    /\ sec_stats.messages_authenticated >= 1
    /\ rate_windows[512] # <<>>
    /\ learning_samples[512] # <<>>

\* thread t runs the loop of an attack that is not in the active set: the
\* attack was stopped and has not been started again
Cancelled(t) == tasks[t].name \in AttackNames /\ tasks[t].name \notin active_attacks

\* C23: cooperative cancellation.  After stop_attack(name) has returned, with
\* the attack not started again, the attack's loop starts no new outer-loop
\* iteration once the iteration in progress is finished, and its execute thread
\* eventually terminates.
C23_CooperativeCancellation ==
    /\ [][\A t \in TaskIds :
             (Cancelled(t) /\ tasks[t].pc \in {"begin", "loop"})
                => tasks'[t].pc # "body"]_vars
    /\ \A t \in TaskIds :
          Cancelled(t) ~> (tasks[t] = NoTask \/ tasks[t].name \in active_attacks)

\* the replay attack was stopped within its burst, the burst was finished and
\* the thread is gone
C23_Witness ==
    /\ LastAction("replay") = "stopped"
    /\ LoopExited("replay")
    /\ attack_stats["replay"].attempts = ReplayBurst * Len(ReplayCaptured)
    /\ Len(tx_queue) > MaxAttempts

\* no thread is between the read and the write of a counter
Quiescent == \A th \in Threads : pending[th] = NoPending

\* C24: no lost updates on the SecurityManager's aggregate counters under
\* concurrent callers, each increment a read followed by a write: whenever no
\* increment is in progress, rate_limit_violations equals the number of
\* check_rate_limit calls that returned failure, and messages_encrypted,
\* messages_authenticated and anomalies_detected equal the numbers of their
\* operations.
C24_NoLostUpdates ==
    Quiescent => \A k \in CounterKeys : sec_stats[k] = op_count[k]

\* C25: every Controller.send call appends exactly one entry to the sending
\* controller's security-overhead history, whatever the outcome, also when the
\* rate limiter blocks the frame.
C25_OverheadRecordedAlways ==
    [][ControllerSendStep =>
          \E c \in Controllers :
             /\ security_overhead_history'[c] = security_overhead_history[c] + 1
             /\ \A o \in Controllers \ {c} :
                   security_overhead_history'[o] = security_overhead_history[o]]_vars

StatFields == {"attempts", "successful", "blocked", "detected"}

\* a step of start_attack or stop_attack
ManagerCallStep == last_call' # last_call

\* C26: the attempts, successful, blocked and detected counters of every attack
\* kind never decrease, and a start_attack or stop_attack call (accepted or
\* refused, also a start after a stop) leaves all of them unchanged.
C26_CountersSurviveStopStart ==
    [][/\ \A n \in AttackNames : \A f \in StatFields :
             attack_stats'[n][f] >= attack_stats[n][f]
       /\ ManagerCallStep => attack_stats' = attack_stats]_vars

\* an attack that made attempts was stopped and started again
C26_Witness ==
    /\ Len(attack_log) = 3
    /\ attack_log[2].action = "stopped"
    /\ attack_log[3].action = "started"
    /\ attack_log[3].attack = attack_log[2].attack
    /\ attack_stats[attack_log[3].attack].attempts >= 1
    /\ attack_stats[attack_log[3].attack].successful >= 1

\* the arbitration ID of the frame enqueued in the step
SentId ==
    tx_queue'[CHOOSE i \in 1..Len(tx_queue') : tx_queue'[i].uid = next_uid].arbitration_id

\* the timestamps of a window within the trailing second, oldest first
Young(w, t) == SelectSeq(w, LAMBDA x : t - x < TicksPerSecond)

\* a step in which check_anomaly ran in the detection phase: IDS is on, learning
\* is over and the frame was not blocked by the rate limiter
DetectionCheckStep ==
    /\ SenderStep
    /\ measures["ids"]
    /\ ~learning_phase
    /\ ~ViolationStep

\* C27: in the detection phase check_anomaly passes without verdict when the ID
\* has no baseline or fewer than 3 of its timestamps lie in the trailing second;
\* otherwise it fails, adding one to anomalies_detected, iff the average recent
\* interval is strictly less than the baseline average interval divided by 3
\* (compared as exact fractions of integer ticks).
C27_AnomalyVerdict ==
    [][DetectionCheckStep =>
          LET base == message_baseline[SentId]
              young == Young(rate_windows'[SentId], now)
              recentSum == young[Len(young)] - young[1]
              recentN == Len(young) - 1
              fails == /\ base.count > 0
                       /\ Len(young) >= 3
                       /\ recentSum * base.n * 3 < base.sum * recentN
          IN /\ sec_stats'.anomalies_detected
                   = sec_stats.anomalies_detected + (IF fails THEN 1 ELSE 0)
             /\ message_baseline' = message_baseline]_vars

\* an anomaly was reported on a burst, with a baseline of a positive average
C27_Witness ==
    /\ ~learning_phase
    /\ measures["ids"] /\ measures["rate_limiting"]
    /\ message_baseline[256].sum > 0
    /\ sec_stats.anomalies_detected = 1
    /\ sec_stats.rate_limit_violations = 0
    /\ Len(rate_windows[256]) = MaxBurst

\* C28: while encryption is enabled, a plaintext frame an attacker put on the
\* bus (not produced by Controller.send, not marked encrypted) is rejected by
\* every receiver: receive logs a decryption_failed event and appends nothing
\* to the latency history or the message log, also at a subscriber of its ID.
C28_InjectedPlaintextRejected ==
    [][(DeliverStep /\ measures["encryption"] /\ bus_frame.source = "ATTACKER") =>
          LET c == receivers[bus_idx]
          IN /\ Len(attack_events'[c]) = Len(attack_events[c]) + 1
             /\ Last(attack_events'[c]).type = "decryption_failed"
             /\ latency_history' = latency_history
             /\ log' = log]_vars

\* C29: a frame produced by Controller.send is accepted by every
\* Controller.receive whatever toggle_security calls happen between its send and
\* its delivery: on a delivery of such a frame the receiver logs no
\* authentication_failed or decryption_failed event, and its health changes only
\* on account of a late frame.
C29_ToggleBetweenSendAndReceive ==
    [][(DeliverStep /\ bus_frame.source \in Controllers) =>
          LET c == receivers[bus_idx]
          IN /\ attack_events'[c] = attack_events[c]
             /\ health_status'[c] # health_status[c] => LatencyBreach(bus_frame)]_vars

\* C30: eventual delivery.  With the arbitration loop kept running, every frame
\* accepted by VirtualCANBus.send is eventually dequeued and broadcast to the
\* last receiver, also a legitimate frame of a non-zero arbitration ID that is
\* pending while the bus_flooding attack keeps enqueueing ID 0x000 frames.
C30_EventualDelivery ==
    \A u \in 1..MaxFrames :
       (u \in accepted) ~> (u \in Range(dequeued) /\ bus_frame.uid # u)

\* C31: with rate limiting enabled and no attack started, no frame a legitimate
\* ECU sends at its nominal period is blocked by the rate limiter:
\* rate_limit_violations stays 0 and every frame sent is on the bus queue.
C31_NominalTrafficNotLimited ==
    measures["rate_limiting"] =>
       /\ sec_stats.rate_limit_violations = 0
       /\ Len(tx_queue) = next_uid - 1

\* a legitimate controller's send of ID id ran check_rate_limit
LegitRateCheck(id) == legit_windows'[id] # legit_windows[id]

\* C32: with rate limiting enabled, every rate-limit check made by a legitimate
\* controller's send for 0x100 or 0x200 has the same pass/fail outcome in the
\* run with the replay attack as in the run without it.
C32_ReplayDoesNotConsumeBudget ==
    [][\A id \in {256, 512} :
          LegitRateCheck(id) =>
             (RateAllowed(rate_windows[id], now) = RateAllowed(legit_windows[id], now))]_vars

\* C33: no count over an ID's rate window has another thread append to that
\* window between its start and its end, and no thread fails on a window
\* mutated during its iteration.
C33_WindowScansNotInterleaved ==
    \A th \in Threads : ~scanning[th].mutated /\ scanning[th].st # "failed"

\* C34: when IDS is not enabled before finish_learning is called, no ID ever
\* has a baseline, so every check_anomaly call passes: anomalies_detected stays
\* 0, no controller logs an anomaly and the replay attack is detected only when
\* the rate limiter blocks it, whatever is toggled or attacked later.
C34_NoBaselineNoAnomalies ==
    /\ \A id \in AllIds : message_baseline[id] = NoBaseline
    /\ sec_stats.anomalies_detected = 0
    /\ \A c \in Controllers : AnomalyEvents(attack_events[c]) = {}
    /\ attack_stats["replay"].detected = attack_stats["replay"].blocked

\* learning ended with no sample taken; IDS and rate limiting are on, more than
\* twenty engine frames and a replay burst went through the checks, and the
\* window of 0x100 holds a burst
C34_Witness ==
    /\ ~learning_phase
    /\ measures["ids"] /\ measures["rate_limiting"]
    /\ \A id \in AllIds : learning_samples[id] = <<>>
    /\ Len(legit_windows[256]) > IdsMinSamples
    /\ attack_stats["replay"].attempts >= ReplayBurst
    /\ Len(RecentTimes(rate_windows[256], now)) > IdsMinRecent

====
